---- MODULE Spec2Model ----
(***************************************************************************)
(* Court-Reserver-Bot: the Reservation Fighter (burst executor) and the    *)
(* Waitlist Scheduler (polling executor), each with its campaign store     *)
(* (configLoader) and its job map, and the Reservation Checker with its    *)
(* state manager, as an event-loop state machine.  Every                   *)
(* `await` of the source is a suspension point: an async function is a     *)
(* process whose pc names the await it is parked on, and one action is one *)
(* run-to-completion turn.                                                 *)
(***************************************************************************)
EXTENDS Integers, Sequences, FiniteSets, TLC

VARIABLES
  engine,       \* the service this state is of: "fighter", "waitlist" or
                \* "checker"
  now,          \* the clock: Date.now() is 1000 * now (whole seconds)
  strategy,     \* config.strategy (fighter) and config.requestData (waitlist)
  disk,         \* the config file: [exists, enabled, targets]
  config,       \* configLoader.config (in memory): [enabled, targets, obj]
  enabled,      \* the service's enabled flag
  initialized,  \* the service's initialized flag
  timers,       \* live setInterval handles: handle -> [id, next]
  jobs,         \* JobGenerator.jobs: target id -> handle
  activeBursts, \* ReservationFighter.activeBursts: target id -> invocation
  invs,         \* runBurst / checkAndReserve invocations in flight: slot -> frame
  op,           \* the operator command in flight (one at a time)
  last,         \* outcome of the last completed operator command
  succ,         \* reservationSuccess events emitted so far, per target id
  rem,          \* removeTarget calls that returned true so far, per target id
  reservationsByDate, \* StateManager.reservationsByDate: day -> set of ids
  reported      \* newReservation events emitted so far, per reservation id

vars == <<engine, now, strategy, disk, config, enabled, initialized, timers, jobs,
          activeBursts, invs, op, last, succ, rem, reservationsByDate, reported>>

\* the variables of the reservation checker
checker == <<reservationsByDate, reported>>

----------------------------------------------------------------------------
(* Program constants *)

CheckIntervalSeconds == 60
AdvanceCheckDays == 7
SecPerDay == 60 * 60 * 24
CutoffDays == 28
SchedulerCheckIntervalSeconds == 10
SchedulerAdvanceCheckDays == 7
CourtIdStart == 52667
DefaultDurationSeconds == 20

\* myMemberId of StateManager.detectNewReservations
MyMemberId == 6098795

(* Bounds of the model *)

MaxNow == 180
MaxTargets == 2
MaxEngineTargets == 1
MaxInv == 2
MaxAttempts == 3
MaxBurstAttempts == 5
MaxCourts == 2
MaxRecords == 2
MaxTime == 3

----------------------------------------------------------------------------
(* Values *)

Missing == ""

Content(e, ts) == [enabled |-> e, targets |-> ts]

File(c) == [exists |-> TRUE, enabled |-> c.enabled, targets |-> c.targets]

NoFile == [exists |-> FALSE, enabled |-> FALSE, targets |-> << >>]

DefaultConfig == Content(FALSE, << >>)

\* configLoader.config: the content of the object it refers to, and which
\* object that is (load and createDefault make a new one)
Object(c, n) == [enabled |-> c.enabled, targets |-> c.targets, obj |-> n]

Slots == 1..MaxInv

\* ref and held are of a save in flight: the object passed to save(), and
\* its content from the moment configLoader.config refers to another object
IdleInv == [pc |-> "idle", id |-> 0, endTime |-> 0, attempts |-> 0,
            success |-> FALSE, wakeAt |-> 0, snap |-> <<>>, avail |-> <<>>,
            ref |-> 0, held |-> DefaultConfig]

IdleOp == [cmd |-> "none", pc |-> "idle", arg |-> <<>>, snap |-> <<>>,
           ref |-> 0, held |-> DefaultConfig]

NoArg == [none |-> TRUE]

Result(cmd, res) == [cmd |-> cmd, res |-> res, errors |-> << >>, n |-> 0, arg |-> NoArg]

NoResult == Result("none", "none")

\* the outcome is recorded only in the behaviours that observe it
Unobserved == Result("unobserved", "none")

Outcome(prev, r) == IF prev.cmd = "unobserved" THEN prev ELSE r

\* an event counter that stops counting at 2
Uncounted == [x \in {-1} |-> 0]

Bump(f, k) == IF -1 \in DOMAIN f THEN f
              ELSE [x \in DOMAIN f \cup {k} |->
                      IF x # k THEN f[x] ELSE IF k \in DOMAIN f /\ f[k] >= 1 THEN 2 ELSE 1]


Without(f, S) == [x \in DOMAIN f \ S |-> f[x]]

With(f, k, v) == [x \in DOMAIN f \cup {k} |-> IF x = k THEN v ELSE f[x]]

Count(f, k) == IF k \in DOMAIN f THEN f[k] ELSE 0

Ids(ts) == {ts[k].id : k \in 1..Len(ts)}

----------------------------------------------------------------------------
(* JobGenerator: interval jobs keyed by target id.  The pair of the live    *)
(* interval handles and the jobs map is passed around as js = [t, j].       *)

JobState(t, j) == [t |-> t, j |-> j]

\* A date string is [k, v]: k = "iso" stands for a parseable string and v for
\* the instant new Date(string) gives, on the clock's scale; "garbage" parses to Invalid Date
\* and "missing" is the absent (falsy) field.
IsoDate(at) == [k |-> "iso", v |-> at]

\* isNaN(new Date(d).getTime())
isInvalidDate(d) == d.k # "iso"

\* new Date(d).getTime() of a parseable date string
getTime(d) == d.v

isExpired(date, clock) == getTime(date) < clock

shouldStartChecking(date, clock) ==
  (getTime(date) - clock) <= AdvanceCheckDays * SecPerDay

FreshHandle(t) == CHOOSE h \in 1..(Cardinality(DOMAIN t) + 1) : h \notin DOMAIN t

removeJob(js, id) ==
  IF id \in DOMAIN js.j
  THEN JobState(Without(js.t, {js.j[id]}), Without(js.j, {id}))
  ELSE js

\* a createJob that arms the new interval without clearing the old one
createJobKeepingOld(js, target, clock) ==
  IF isExpired(target.date, clock) THEN js
  ELSE IF ~shouldStartChecking(target.date, clock) THEN js
  ELSE LET h == FreshHandle(js.t)
       IN JobState(With(js.t, h, [id |-> target.id,
                                  next |-> clock + CheckIntervalSeconds]),
                   With(js.j, target.id, h))

createJob(js, target, clock) ==
  IF isExpired(target.date, clock) THEN js
  ELSE IF ~shouldStartChecking(target.date, clock) THEN js
  ELSE LET cleared == removeJob(js, target.id)
           h == FreshHandle(cleared.t)
       IN JobState(With(cleared.t, h, [id |-> target.id,
                                       next |-> clock + CheckIntervalSeconds]),
                   With(cleared.j, target.id, h))

removeAllJobs(js) ==
  JobState(Without(js.t, {js.j[id] : id \in DOMAIN js.j}), << >>)

\* CronGenerator of the waitlist scheduler: a job per target id on a fixed
\* tick, armed for an unexpired target inside the lead window, replacing the
\* job the id already has
cronCreateJob(js, target, clock) ==
  IF getTime(target.date) < clock
     \/ (getTime(target.date) - clock) > SchedulerAdvanceCheckDays * SecPerDay
  THEN js
  ELSE LET cleared == removeJob(js, target.id)
           h == FreshHandle(cleared.t)
       IN JobState(With(cleared.t, h, [id |-> target.id,
                                       next |-> clock + SchedulerCheckIntervalSeconds]),
                   With(cleared.j, target.id, h))

arm(kind, js, target, clock) ==
  IF kind = "fighter" THEN createJob(js, target, clock)
  ELSE cronCreateJob(js, target, clock)

RECURSIVE scheduleAllJobs(_, _, _, _)
scheduleAllJobs(kind, js, targets, clock) ==
  IF targets = << >> THEN js
  ELSE scheduleAllJobs(kind, arm(kind, js, Head(targets), clock), Tail(targets), clock)

\* cleanupExpired / cleanupOldTargets of the engine: drop the jobs whose id is
\* no longer the id of a stored target
RECURSIVE removeJobsOf(_, _)
removeJobsOf(js, ids) ==
  IF ids = {} THEN js
  ELSE LET id == CHOOSE x \in ids : TRUE
       IN removeJobsOf(removeJob(js, id), ids \ {id})

pruneJobs(js, targets) == removeJobsOf(js, DOMAIN js.j \ Ids(targets))

----------------------------------------------------------------------------
(* ConfigLoader: validation and the list edits made before save() *)

\* A number field is [k, v]: k = "num" with value v, "text" (a non-numeric,
\* non-empty string), "nan", or "missing".
Num(n) == [k |-> "num", v |-> n]

\* !x || x <= 0 of a duration field: a non-numeric string is truthy and
\* compares false with 0
notPositive(x) == x.k \in {"missing", "nan"} \/ (x.k = "num" /\ (x.v = 0 \/ x.v <= 0))

\* a validator that stops at the first violated constraint
validateTargetFirstOnly(target) ==
  IF target.court = Missing THEN <<"court is required">>
  ELSE IF target.date.k = "missing" THEN <<"date is required">>
  ELSE IF isInvalidDate(target.date) THEN <<"date must be valid ISO date string">>
  ELSE IF target.startTime = Missing THEN <<"startTime is required">>
  ELSE IF notPositive(target.duration) THEN <<"duration must be a positive number">>
  ELSE << >>

validateTarget(target) ==
  (IF target.court = Missing THEN <<"court is required">> ELSE << >>)
  \o (IF target.date.k = "missing" THEN <<"date is required">>
      ELSE IF isInvalidDate(target.date)
           THEN <<"date must be valid ISO date string">> ELSE << >>)
  \o (IF target.startTime = Missing THEN <<"startTime is required">> ELSE << >>)
  \o (IF notPositive(target.duration)
      THEN <<"duration must be a positive number">> ELSE << >>)

\* validateTarget of the waitlist ConfigLoader
validateWaitlistTarget(target) ==
  (IF target.date.k = "missing" THEN <<"date is required">>
   ELSE IF isInvalidDate(target.date)
        THEN <<"date must be valid ISO date string">> ELSE << >>)
  \o (IF target.timeRange.start = Missing \/ target.timeRange.end = Missing
      THEN <<"timeRange with start and end is required">> ELSE << >>)
  \o (IF notPositive(target.duration)
      THEN <<"duration must be a positive number">> ELSE << >>)

withoutId(targets, id) == SelectSeq(targets, LAMBDA t : t.id # id)

\* a filter that also drops the target whose date is the present instant
unexpiredStrict(targets, clock) ==
  SelectSeq(targets, LAMBDA t : getTime(t.date) > clock)

unexpired(targets, clock) == SelectSeq(targets, LAMBDA t : getTime(t.date) >= clock)

\* a filter that also drops the target dated exactly at the cutoff
notOldStrict(targets, clock) ==
  SelectSeq(targets, LAMBDA t : getTime(t.date) > clock + CutoffDays * SecPerDay)

notOld(targets, clock) ==
  SelectSeq(targets, LAMBDA t : getTime(t.date) >= clock + CutoffDays * SecPerDay)


----------------------------------------------------------------------------
(* Start of the process *)

FighterStrategy(seconds, intervalMs) ==
  [durationSeconds |-> seconds, requestIntervalMs |-> intervalMs,
   requestData |-> FALSE]

InitCommon ==
  /\ now = 0
  /\ config = Object(DefaultConfig, 0)
  /\ enabled = FALSE
  /\ initialized = FALSE
  /\ timers = << >>
  /\ jobs = << >>
  /\ activeBursts = << >>
  /\ invs = [i \in Slots |-> IdleInv]
  /\ op = IdleOp
  /\ reservationsByDate = << >>
  /\ reported = << >>

\* a target as the config file holds it
Stored(id, date) == [id |-> id, date |-> date]

\* the config files the process may find at start: none, or one of at most
\* n targets
Files(n, dates) ==
  {NoFile} \cup {File(Content(e, << >>)) : e \in BOOLEAN}
  \cup {File(Content(e, <<Stored(1, d)>>)) : e \in BOOLEAN, d \in dates}
  \cup (IF n < 2 THEN {}
        ELSE {File(Content(e, <<Stored(1, d), Stored(2, d)>>)) :
                e \in BOOLEAN, d \in dates})

PollStrategy == [durationSeconds |-> 0, requestIntervalMs |-> 0, requestData |-> TRUE]

\* either service at its start: the fighter with a 120 s burst of one request
\* per minute, or the waitlist scheduler with its request data configured
Init ==
  /\ InitCommon
  /\ engine \in {"fighter", "waitlist"}
  /\ strategy = IF engine = "fighter"
                THEN FighterStrategy(2 * CheckIntervalSeconds, CheckIntervalSeconds * 1000)
                ELSE PollStrategy
  /\ disk \in Files(MaxEngineTargets, {IsoDate(CheckIntervalSeconds),
                                       IsoDate((AdvanceCheckDays + 1) * SecPerDay)})
  /\ last = Unobserved
  /\ succ = << >>
  /\ rem = << >>

Js == JobState(timers, jobs)

\* ReservationFighter.initialize: load (createDefault when the file is
\* missing), take the enabled flag, arm the jobs.  Nothing else runs yet.
Initialize ==
  /\ ~initialized
  /\ op.pc = "idle"
  /\ LET loaded == IF disk.exists THEN Content(disk.enabled, disk.targets)
                   ELSE DefaultConfig
         js == IF loaded.enabled
               THEN scheduleAllJobs(engine, Js, loaded.targets, now)
               ELSE Js
     IN /\ config' = Object(loaded, 0)
        /\ disk' = File(loaded)
        /\ enabled' = loaded.enabled
        /\ timers' = js.t
        /\ jobs' = js.j
  /\ initialized' = TRUE
  /\ UNCHANGED <<checker, engine, now, strategy, activeBursts, invs, op, last, succ, rem>>

Ready == initialized /\ op.pc = "idle"

validate(t) == IF engine = "fighter" THEN validateTarget(t)
               ELSE validateWaitlistTarget(t)

----------------------------------------------------------------------------
(* Operator commands, up to their first await *)

Command(cmd, arg) == [IdleOp EXCEPT !.cmd = cmd, !.pc = "mkdir", !.arg = arg,
                                   !.ref = config.obj]

\* ReservationFighter.addTarget with an invalid target: throws synchronously
AddTargetRejected(t) ==
  /\ Ready
  /\ validate(t) # << >>
  /\ last' = Outcome(last, [Result("addTarget", "rejected")
                               EXCEPT !.errors = validate(t), !.arg = t])
  /\ UNCHANGED <<checker, engine, now, strategy, disk, config, enabled, initialized, timers,
                 jobs, activeBursts, invs, op, succ, rem>>

\* ReservationFighter.addTarget -> ConfigLoader.addTarget: id from the clock,
\* push, then save
AddTarget(t, cap) ==
  /\ Ready
  /\ validate(t) = << >>
  /\ Len(config.targets) < cap
  /\ LET newTarget == [id |-> now, date |-> t.date]
     IN /\ config' = [config EXCEPT !.targets = Append(@, newTarget)]
        /\ op' = Command("addTarget", newTarget)
  /\ UNCHANGED <<checker, engine, now, strategy, disk, enabled, initialized, timers, jobs,
                 activeBursts, invs, last, succ, rem>>

\* a removeTarget that saves whether or not something was removed
RemoveTargetAlwaysSaves(id) ==
  /\ Ready
  /\ config' = [config EXCEPT !.targets = withoutId(config.targets, id)]
  /\ op' = Command("removeTarget", id)
  /\ UNCHANGED <<checker, engine, now, strategy, disk, enabled, initialized, timers, jobs,
                 activeBursts, invs, last, succ, rem>>

\* ReservationFighter.removeTarget -> ConfigLoader.removeTarget: filter, and
\* save only when something was removed
RemoveTarget(id) ==
  /\ Ready
  /\ LET kept == withoutId(config.targets, id)
     IN IF Len(kept) < Len(config.targets)
        THEN /\ config' = [config EXCEPT !.targets = kept]
             /\ op' = Command("removeTarget", id)
             /\ UNCHANGED last
        ELSE /\ last' = Outcome(last, [Result("removeTarget", "false")
                                          EXCEPT !.arg = [id |-> id]])
             /\ UNCHANGED <<config, op>>
  /\ UNCHANGED <<checker, engine, now, strategy, disk, enabled, initialized, timers, jobs,
                 activeBursts, invs, succ, rem>>

\* ReservationFighter.enable / disable -> ConfigLoader.setEnabled
SetEnabled(flag) ==
  /\ Ready
  /\ config' = [config EXCEPT !.enabled = flag]
  /\ op' = Command(IF flag THEN "enable" ELSE "disable", flag)
  /\ UNCHANGED <<checker, engine, now, strategy, disk, enabled, initialized, timers, jobs,
                 activeBursts, invs, last, succ, rem>>

Enable == SetEnabled(TRUE)

Disable == SetEnabled(FALSE)

\* ReservationFighter.cleanupExpired / cleanupOldTargets: filter, save when
\* something was removed, then drop the jobs of ids no longer stored
Cleanup(cmd, kept) ==
  /\ Ready
  /\ config' = [config EXCEPT !.targets = kept]
  /\ IF Len(kept) < Len(config.targets)
     THEN /\ op' = Command(cmd, Len(config.targets) - Len(kept))
          /\ UNCHANGED <<timers, jobs, last>>
     ELSE /\ timers' = pruneJobs(Js, kept).t
          /\ jobs' = pruneJobs(Js, kept).j
          /\ last' = Outcome(last, Result(cmd, "ok"))
          /\ UNCHANGED op
  /\ UNCHANGED <<checker, engine, now, strategy, disk, enabled, initialized, activeBursts,
                 invs, succ, rem>>

CleanupExpired == Cleanup("cleanupExpired", unexpired(config.targets, now))

CleanupOldTargets ==
  /\ engine = "fighter"
  /\ Cleanup("cleanupOldTargets", notOld(config.targets, now))

\* a reload that does not drop the jobs first
ReloadKeepingJobs ==
  /\ Ready
  /\ op' = [Command("reload", << >>) EXCEPT !.pc = "read"]
  /\ UNCHANGED <<checker, engine, now, strategy, disk, config, enabled, initialized, timers,
                 jobs, activeBursts, invs, last, succ, rem>>

\* ReservationFighter.reload: drop every job, then await load()
Reload ==
  /\ Ready
  /\ timers' = removeAllJobs(Js).t
  /\ jobs' = removeAllJobs(Js).j
  /\ op' = [Command("reload", << >>) EXCEPT !.pc = "read"]
  /\ UNCHANGED <<checker, engine, now, strategy, disk, config, enabled, initialized,
                 activeBursts, invs, last, succ, rem>>


----------------------------------------------------------------------------
(* ConfigLoader.save(configData) as seen by the command that awaits it:      *)
(* await mkdir, then JSON.stringify(configData) and await writeFile, then    *)
(* this.config = configData.                                                 *)

Pending(r) == r.pc \in {"mkdir", "write"}

\* JSON.stringify(configData) of a save in flight
Text(r) == IF r.ref = config.obj THEN Content(config.enabled, config.targets)
           ELSE r.held

\* configLoader.config is about to refer to another object: a save in flight
\* on the present one keeps its content
Freeze(r) == IF Pending(r) /\ r.ref = config.obj
             THEN [r EXCEPT !.held = Content(config.enabled, config.targets)]
             ELSE r

\* the objects some save in flight still holds
Held == {r.ref : r \in {x \in {op} \cup {invs[i] : i \in Slots} : Pending(x)}}

\* a new object: named by the least number naming no object still held
FreshObj ==
  CHOOSE n \in 0..(MaxInv + 1) :
     n \notin Held /\ \A m \in 0..(MaxInv + 1) : m \notin Held => n <= m

\* this.config = configData at the end of the save r
Assigned(r) == IF r.ref = config.obj THEN config ELSE Object(r.held, r.ref)

\* mkdir resolved: the text to write is taken from the object as it is now
OpMkdir ==
  /\ op.pc = "mkdir"
  /\ op' = [op EXCEPT !.pc = "write", !.snap = Text(op)]
  /\ UNCHANGED <<checker, engine, now, strategy, disk, config, enabled, initialized, timers,
                 jobs, activeBursts, invs, last, succ, rem>>

\* mkdir or writeFile rejected: save rethrows and the command throws
OpSaveFail ==
  /\ op.pc \in {"mkdir", "write"}
  /\ op' = IdleOp
  /\ last' = Outcome(last, Result(op.cmd, "error"))
  /\ UNCHANGED <<checker, engine, now, strategy, disk, config, enabled, initialized, timers,
                 jobs, activeBursts, invs, succ, rem>>

\* an addTarget that arms the job whatever the enabled flag
afterSaveArmsAlways(kind, cmd, arg, js, flag, targets, clock) ==
  CASE cmd = "addTarget" -> arm(kind, js, arg, clock)
    [] cmd = "removeTarget" -> removeJob(js, arg)
    [] cmd = "enable" -> scheduleAllJobs(kind, js, targets, clock)
    [] cmd = "disable" -> js
    [] OTHER -> pruneJobs(js, targets)

\* what the command does after `await configLoader.<edit>()` returned
afterSave(kind, cmd, arg, js, flag, targets, clock) ==
  CASE cmd = "addTarget" -> IF flag THEN arm(kind, js, arg, clock) ELSE js
    [] cmd = "removeTarget" -> removeJob(js, arg)
    [] cmd = "enable" -> scheduleAllJobs(kind, js, targets, clock)
    [] cmd = "disable" -> js
    [] OTHER -> pruneJobs(js, targets)

\* writeFile resolved: the file holds the text, and the command finishes
OpWrite ==
  /\ op.pc = "write"
  /\ disk' = File(op.snap)
  /\ enabled' = CASE op.cmd = "enable" -> TRUE
                  [] op.cmd = "disable" -> FALSE
                  [] OTHER -> enabled
  /\ config' = Assigned(op)
  /\ invs' = IF op.ref = config.obj THEN invs ELSE [i \in Slots |-> Freeze(invs[i])]
  /\ LET js == afterSave(engine, op.cmd, op.arg, Js, enabled, Assigned(op).targets, now)
     IN timers' = js.t /\ jobs' = js.j
  /\ rem' = IF op.cmd = "removeTarget" THEN Bump(rem, op.arg) ELSE rem
  /\ last' = Outcome(last,
               IF op.cmd = "removeTarget"
               THEN [Result(op.cmd, "true") EXCEPT !.arg = [id |-> op.arg]]
               ELSE IF op.cmd \in {"cleanupExpired", "cleanupOldTargets"}
               THEN [Result(op.cmd, "ok") EXCEPT !.n = op.arg]
               ELSE Result(op.cmd, "ok"))
  /\ op' = IdleOp
  /\ UNCHANGED <<checker, engine, now, strategy, initialized, activeBursts, succ>>

\* readFile of load() resolved with the text the file holds now
ReloadRead ==
  /\ op.pc = "read"
  /\ op' = [op EXCEPT !.pc = "parsed", !.snap = Content(disk.enabled, disk.targets)]
  /\ UNCHANGED <<checker, engine, now, strategy, disk, config, enabled, initialized, timers,
                 jobs, activeBursts, invs, last, succ, rem>>

\* readFile rejected (not ENOENT): load and reload throw, the jobs are gone
ReloadFail ==
  /\ op.pc = "read"
  /\ op' = IdleOp
  /\ last' = Outcome(last, Result("reload", "error"))
  /\ UNCHANGED <<checker, engine, now, strategy, disk, config, enabled, initialized, timers,
                 jobs, activeBursts, invs, succ, rem>>

\* reload continues: config from the text, enabled flag, jobs re-armed
ReloadFinish ==
  /\ op.pc = "parsed"
  /\ config' = Object(op.snap, FreshObj)
  /\ invs' = [i \in Slots |-> Freeze(invs[i])]
  /\ enabled' = op.snap.enabled
  /\ LET js == IF op.snap.enabled
               THEN scheduleAllJobs(engine, Js, op.snap.targets, now)
               ELSE Js
     IN timers' = js.t /\ jobs' = js.j
  /\ last' = Outcome(last, Result("reload", "ok"))
  /\ op' = IdleOp
  /\ UNCHANGED <<checker, engine, now, strategy, disk, initialized, activeBursts, succ, rem>>

----------------------------------------------------------------------------
(* Invocations of the job callbacks, one frame per invocation *)

FreeSlot(cap) ==
  CHOOSE i \in 1..cap : invs[i].pc = "idle"
                        /\ \A k \in 1..cap : invs[k].pc = "idle" => i <= k

\* durationSeconds * 1000 and requestIntervalMs, on the clock's scale
Duration == strategy.durationSeconds

RequestInterval == strategy.requestIntervalMs \div 1000

\* a loop head that does not look at the clock
loopHeadUntimed(f, flag, clock) ==
  IF flag
  THEN [f EXCEPT !.pc = "attempt", !.attempts = @ + 1]
  ELSE IdleInv

\* `while (Date.now() < endTime && this.enabled)`: the next request, or the
\* end of the burst (burstComplete, and finally activeBursts.delete(id))
loopHead(f, flag, clock) ==
  IF clock < f.endTime /\ flag
  THEN [f EXCEPT !.pc = "attempt", !.attempts = @ + 1]
  ELSE IdleInv

\* an afterFail whose loop condition does not read the enabled flag
afterFailWhileDisabled(f, flag, clock) ==
  IF clock + RequestInterval < f.endTime
  THEN [f EXCEPT !.pc = "sleep", !.wakeAt = clock + RequestInterval]
  ELSE loopHead(f, TRUE, clock)

\* after the catch block: wait only when another request fits before endTime
afterFail(f, flag, clock) ==
  IF clock + RequestInterval < f.endTime
  THEN [f EXCEPT !.pc = "sleep", !.wakeAt = clock + RequestInterval]
  ELSE loopHead(f, flag, clock)

Returned(f) == f.pc = "idle"

\* a Continue that leaves the session of a burst that returned registered
ContinueLeavingSession(i, g, cap) ==
  /\ g.attempts <= cap
  /\ invs' = [invs EXCEPT ![i] = g]
  /\ activeBursts' = activeBursts

\* the frame goes on as g; a burst that returned has left activeBursts
Continue(i, g, cap) ==
  /\ g.attempts <= cap
  /\ invs' = [invs EXCEPT ![i] = g]
  /\ activeBursts' = IF Returned(g) THEN Without(activeBursts, {invs[i].id})
                     ELSE activeBursts

\* the errors a request is rejected with: an authentication error (401 or
\* 403), or the court is taken
Rejections == {"unauthorized", "taken"}

\* an event emitted: its name, the target id, a count and a detail
Event(name, id, n, detail) == [name |-> name, id |-> id, n |-> n, detail |-> detail]

\* emit('burstComplete', {target, attempts, success, duration})
burstComplete(f) == Event("burstComplete", f.id, f.attempts, f.success)

\* emit('requestFailed', {targetId, requestCount, error})
requestFailed(f, err) == Event("requestFailed", f.id, f.attempts, err)

\* emit('reservationError', {target, error})
reservationError(f) == Event("reservationError", f.id, 0, "error")

\* the events emitted in one turn, in order, as the observed outcome
Observe(es) ==
  IF es = << >> THEN last ELSE Outcome(last, [Result("emit", "ok") EXCEPT !.arg = es])

\* the events of the turn in which frame i, a burst that goes on as f, has
\* emitted es: burstComplete follows when the burst leaves its loop
Closing(i, f, es) ==
  Observe(IF engine = "fighter" /\ invs'[i].pc = "idle"
          THEN es \o <<burstComplete(f)>> ELSE es)

\* a runBurst that does not look at activeBursts
RunBurstUnguarded(h, cap) ==
  /\ engine = "fighter"
  /\ h \in DOMAIN timers
  /\ now >= timers[h].next
  /\ timers' = [timers EXCEPT ![h].next = now + CheckIntervalSeconds]
  /\ LET id == timers[h].id
     IN IF ~enabled
        THEN UNCHANGED <<invs, activeBursts, last>>
        ELSE /\ \E i \in 1..cap : invs[i].pc = "idle"
             /\ LET i == FreeSlot(cap)
                    f == [IdleInv EXCEPT !.id = id, !.endTime = now + Duration]
                    g == loopHead(f, enabled, now)
                IN /\ invs' = [invs EXCEPT ![i] = g]
                   /\ activeBursts' = IF Returned(g) THEN activeBursts
                                      ELSE With(activeBursts, id, i)
                   /\ last' = IF Returned(g) THEN Observe(<<burstComplete(f)>>)
                              ELSE last
  /\ UNCHANGED <<checker, engine, now, strategy, disk, config, enabled, initialized,
                 jobs, op, succ, rem>>

\* the interval callback of a fighter job: runBurst(target)
RunBurst(h, cap) ==
  /\ engine = "fighter"
  /\ h \in DOMAIN timers
  /\ now >= timers[h].next
  /\ timers' = [timers EXCEPT ![h].next = now + CheckIntervalSeconds]
  /\ LET id == timers[h].id
     IN IF ~enabled \/ id \in DOMAIN activeBursts
        THEN UNCHANGED <<invs, activeBursts, last>>
        ELSE /\ \E i \in 1..cap : invs[i].pc = "idle"
             /\ LET i == FreeSlot(cap)
                    f == [IdleInv EXCEPT !.id = id, !.endTime = now + Duration]
                    g == loopHead(f, enabled, now)
                IN /\ invs' = [invs EXCEPT ![i] = g]
                   /\ activeBursts' = IF Returned(g) THEN activeBursts
                                      ELSE With(activeBursts, id, i)
                   /\ last' = IF Returned(g) THEN Observe(<<burstComplete(f)>>)
                              ELSE last
  /\ UNCHANGED <<checker, engine, now, strategy, disk, config, enabled, initialized,
                 jobs, op, succ, rem>>

\* configLoader.removeTarget(id) called by a frame after a booking: the
\* filter, then save when something was removed, else removeJob and return
RemoveAfterSuccess(i, f, cap) ==
  LET kept == withoutId(config.targets, f.id)
  IN IF Len(kept) < Len(config.targets)
     THEN /\ config' = [config EXCEPT !.targets = kept]
          /\ Continue(i, [f EXCEPT !.pc = "mkdir", !.ref = config.obj], cap)
          /\ UNCHANGED <<timers, jobs>>
     ELSE /\ timers' = removeJob(Js, f.id).t
          /\ jobs' = removeJob(Js, f.id).j
          /\ Continue(i, IdleInv, cap)
          /\ UNCHANGED config

\* makeReservation of a burst resolved: success, reservationSuccess, removal
AttemptOk(i) ==
  /\ invs[i].pc = "attempt"
  /\ succ' = Bump(succ, invs[i].id)
  /\ RemoveAfterSuccess(i, [invs[i] EXCEPT !.success = TRUE], invs[i].attempts)
  /\ last' = Closing(i, [invs[i] EXCEPT !.success = TRUE], << >>)
  /\ UNCHANGED <<checker, engine, now, strategy, disk, enabled, initialized, op, rem>>

\* makeReservation of a burst rejected: requestFailed, then the wait or the
\* next request
AttemptFail(i, cap) ==
  /\ invs[i].pc = "attempt"
  /\ Continue(i, afterFail(invs[i], enabled, now), cap)
  /\ \E err \in Rejections :
        last' = Closing(i, invs[i], <<requestFailed(invs[i], err)>>)
  /\ UNCHANGED <<checker, engine, now, strategy, disk, config, enabled, initialized,
                 timers, jobs, op, succ, rem>>

\* save of removeTarget: mkdir resolved
SaveMkdir(i) ==
  /\ invs[i].pc = "mkdir"
  /\ Continue(i, [invs[i] EXCEPT !.pc = "write", !.snap = Text(invs[i])],
              invs[i].attempts)
  /\ UNCHANGED <<checker, engine, now, strategy, disk, config, enabled, initialized,
                 timers, jobs, op, last, succ, rem>>

\* a rejected save whose throw leaves checkAndReserve: an unhandled rejection
SaveFailEscapes(i, cap) ==
  /\ invs[i].pc \in {"mkdir", "write"}
  /\ Continue(i, IdleInv, cap)
  /\ last' = Observe(<<Event("unhandledRejection", invs[i].id, 0, "error")>>)
  /\ UNCHANGED <<checker, engine, now, strategy, disk, config, enabled, initialized,
                 timers, jobs, op, succ, rem>>

\* save of removeTarget rejected: in a burst the throw lands in the request's
\* catch block and the loop goes on; in checkAndReserve it lands in the outer
\* catch (reservationError) and the tick returns
SaveFail(i, cap) ==
  /\ invs[i].pc \in {"mkdir", "write"}
  /\ Continue(i, IF engine = "fighter"
                 THEN afterFail([invs[i] EXCEPT !.snap = << >>, !.ref = 0,
                                                !.held = DefaultConfig],
                                enabled, now)
                 ELSE IdleInv, cap)
  /\ last' = IF engine = "fighter"
             THEN Closing(i, invs[i], <<requestFailed(invs[i], "save")>>)
             ELSE Observe(<<reservationError(invs[i])>>)
  /\ UNCHANGED <<checker, engine, now, strategy, disk, config, enabled, initialized,
                 timers, jobs, op, succ, rem>>

\* save of removeTarget resolved: this.config = configData, removeTarget
\* returns true, removeJob(id), and the frame returns
SaveWrite(i) ==
  /\ invs[i].pc = "write"
  /\ disk' = File(invs[i].snap)
  /\ config' = Assigned(invs[i])
  /\ op' = IF invs[i].ref = config.obj THEN op ELSE Freeze(op)
  /\ invs' = [k \in Slots |->
               IF k = i THEN IdleInv
               ELSE IF invs[i].ref = config.obj THEN invs[k] ELSE Freeze(invs[k])]
  /\ activeBursts' = Without(activeBursts, {invs[i].id})
  /\ rem' = Bump(rem, invs[i].id)
  /\ timers' = removeJob(Js, invs[i].id).t
  /\ jobs' = removeJob(Js, invs[i].id).j
  /\ last' = Closing(i, invs[i], << >>)
  /\ UNCHANGED <<checker, engine, now, strategy, enabled, initialized, succ>>

\* the setTimeout of the wait fired
Wake(i, cap) ==
  /\ invs[i].pc = "sleep"
  /\ now >= invs[i].wakeAt
  /\ Continue(i, loopHead(invs[i], enabled, now), cap)
  /\ last' = Closing(i, invs[i], << >>)
  /\ UNCHANGED <<checker, engine, now, strategy, disk, config, enabled, initialized,
                 timers, jobs, op, succ, rem>>

----------------------------------------------------------------------------
(* WaitlistScheduler.checkAndReserve *)

CourtIdEnd == CourtIdStart + MaxCourts - 1

Courts == CourtIdStart..CourtIdEnd

\* an item of schedulerData.Data; Start and End are date strings
Item(rid, court, start, end) ==
  [ReservationId |-> rid, CourtId |-> court, Start |-> start, End |-> end]

\* x < y of two Date objects: false when either is an Invalid Date
before(x, y) == x.k = "iso" /\ y.k = "iso" /\ x.v < y.v

\* a _getCourtReservations that keeps the records with ReservationId <= 0
getCourtReservationsAll(data, courtId) ==
  LET real == SelectSeq(data, LAMBDA item : item.CourtId = courtId)
  IN [k \in 1..Len(real) |-> [startTime |-> real[k].Start, endTime |-> real[k].End]]

getCourtReservations(data, courtId) ==
  LET real == SelectSeq(data, LAMBDA item : item.ReservationId > 0
                                            /\ item.CourtId = courtId)
  IN [k \in 1..Len(real) |-> [startTime |-> real[k].Start, endTime |-> real[k].End]]

\* a _hasTimeConflict for which windows that only touch conflict
hasTimeConflictTouching(data, courtId, desiredStart, desiredEnd) ==
  LET reservations == getCourtReservations(data, courtId)
  IN \E k \in 1..Len(reservations) :
        /\ ~before(reservations[k].endTime, desiredStart)
        /\ ~before(desiredEnd, reservations[k].startTime)

hasTimeConflict(data, courtId, desiredStart, desiredEnd) ==
  LET reservations == getCourtReservations(data, courtId)
  IN \E k \in 1..Len(reservations) :
        /\ before(desiredStart, reservations[k].endTime)
        /\ before(reservations[k].startTime, desiredEnd)

\* a loop of findAvailableCourts that puts each free court in front of the
\* ones found before it
RECURSIVE courtsFromDescending(_, _, _, _, _)
courtsFromDescending(courtId, last_, data, desiredStart, desiredEnd) ==
  IF courtId > last_ THEN << >>
  ELSE courtsFromDescending(courtId + 1, last_, data, desiredStart, desiredEnd)
       \o (IF hasTimeConflict(data, courtId, desiredStart, desiredEnd)
           THEN << >> ELSE <<courtId>>)

\* the loop of findAvailableCourts from courtId up to last
RECURSIVE courtsFrom(_, _, _, _, _)
courtsFrom(courtId, last_, data, desiredStart, desiredEnd) ==
  IF courtId > last_ THEN << >>
  ELSE (IF hasTimeConflict(data, courtId, desiredStart, desiredEnd)
        THEN << >> ELSE <<courtId>>)
       \o courtsFrom(courtId + 1, last_, data, desiredStart, desiredEnd)

\* a findAvailableCourts whose loop stops before courtIdEnd
findAvailableCourtsShort(data, desiredStart, desiredEnd) ==
  courtsFrom(CourtIdStart, CourtIdEnd - 1, data, desiredStart, desiredEnd)

findAvailableCourts(data, desiredStart, desiredEnd) ==
  courtsFrom(CourtIdStart, CourtIdEnd, data, desiredStart, desiredEnd)

RECURSIVE Ascending(_)
Ascending(S) ==
  IF S = {} THEN << >>
  ELSE LET m == CHOOSE x \in S : \A y \in S : x <= y
       IN <<m>> \o Ascending(S \ {m})

\* a checkAndReserve that does not look at the enabled flag
CheckAndReserveWhileDisabled(h, cap) ==
  /\ engine = "waitlist"
  /\ h \in DOMAIN timers
  /\ now >= timers[h].next
  /\ timers' = [timers EXCEPT ![h].next = now + SchedulerCheckIntervalSeconds]
  /\ IF ~strategy.requestData
     THEN UNCHANGED invs
     ELSE /\ \E i \in 1..cap : invs[i].pc = "idle"
          /\ invs' = [invs EXCEPT ![FreeSlot(cap)] =
                        [IdleInv EXCEPT !.pc = "query", !.id = timers[h].id]]
  /\ UNCHANGED <<checker, engine, now, strategy, disk, config, enabled, initialized,
                 jobs, activeBursts, op, last, succ, rem>>

\* the job callback of a waitlist target: checkAndReserve(target), up to the
\* await of getMemberExpandedScheduler
CheckAndReserve(h, cap) ==
  /\ engine = "waitlist"
  /\ h \in DOMAIN timers
  /\ now >= timers[h].next
  /\ timers' = [timers EXCEPT ![h].next = now + SchedulerCheckIntervalSeconds]
  /\ IF ~enabled \/ ~strategy.requestData
     THEN UNCHANGED invs
     ELSE /\ \E i \in 1..cap : invs[i].pc = "idle"
          /\ invs' = [invs EXCEPT ![FreeSlot(cap)] =
                        [IdleInv EXCEPT !.pc = "query", !.id = timers[h].id]]
  /\ UNCHANGED <<checker, engine, now, strategy, disk, config, enabled, initialized,
                 jobs, activeBursts, op, last, succ, rem>>

\* after the loop over the available courts
AfterCourts(i, f) ==
  IF f.avail # << >>
  THEN Continue(i, f, MaxCourts) /\ UNCHANGED <<config, timers, jobs>>
  ELSE IF f.success
  THEN RemoveAfterSuccess(i, f, MaxCourts)
  ELSE Continue(i, IdleInv, 0) /\ UNCHANGED <<config, timers, jobs>>

\* the scheduler data arrived: findAvailableCourts for the desired window q
QueryOk(i, q) ==
  /\ invs[i].pc = "query"
  /\ LET free == findAvailableCourts(q.data, q.desiredStart, q.desiredEnd)
     IN /\ AfterCourts(i, [invs[i] EXCEPT !.pc = "book", !.avail = free])
        /\ last' = Outcome(last, [Result("findAvailableCourts", "ok")
                                    EXCEPT !.arg = [q |-> q, courts |-> free]])
  /\ UNCHANGED <<checker, engine, now, strategy, disk, enabled, initialized, op, succ, rem>>

\* getMemberExpandedScheduler rejected: reservationError, the tick returns
QueryFail(i) ==
  /\ invs[i].pc = "query"
  /\ Continue(i, IdleInv, 0)
  /\ last' = Observe(<<reservationError(invs[i])>>)
  /\ UNCHANGED <<checker, engine, now, strategy, disk, config, enabled, initialized,
                 timers, jobs, op, succ, rem>>

\* makeReservation on the next free court resolved: reservationSuccess
BookOk(i) ==
  /\ invs[i].pc = "book"
  /\ succ' = Bump(succ, invs[i].id)
  /\ AfterCourts(i, [invs[i] EXCEPT !.avail = Tail(@), !.success = TRUE,
                                    !.attempts = @ + 1])
  /\ UNCHANGED <<checker, engine, now, strategy, disk, enabled, initialized, op, last, rem>>

\* a rejection that ends the loop over the free courts
BookFailStops(i) ==
  /\ invs[i].pc = "book"
  /\ AfterCourts(i, [invs[i] EXCEPT !.avail = << >>, !.attempts = @ + 1])
  /\ UNCHANGED <<checker, engine, now, strategy, disk, enabled, initialized, op, last,
                 succ, rem>>

\* makeReservation on the next free court rejected: on to the next court
BookFail(i) ==
  /\ invs[i].pc = "book"
  /\ AfterCourts(i, [invs[i] EXCEPT !.avail = Tail(@), !.attempts = @ + 1])
  /\ UNCHANGED <<checker, engine, now, strategy, disk, enabled, initialized, op, last,
                 succ, rem>>

----------------------------------------------------------------------------
(* The clock *)

Advance(d, horizon) ==
  /\ now + d <= horizon
  /\ now' = now + d
  /\ UNCHANGED <<checker, engine, strategy, disk, config, enabled, initialized, timers,
                 jobs, activeBursts, invs, op, last, succ, rem>>

----------------------------------------------------------------------------
(* Inputs of the operator commands *)

Soon == IsoDate(CheckIntervalSeconds)

Far == IsoDate((AdvanceCheckDays + 1) * SecPerDay)

Target(court, date, startTime, duration) ==
  [court |-> court, date |-> date, startTime |-> startTime, duration |-> duration,
   timeRange |-> [start |-> startTime, end |-> startTime]]

ValidTarget(d) == Target("52667", d, "18:00", Num(60))

KnownIds == Ids(config.targets) \cup DOMAIN jobs \cup (DOMAIN rem \ {-1})

Edit(inputs, cap) ==
  \/ \E t \in inputs : AddTarget(t, cap)
  \/ \E id \in KnownIds : RemoveTarget(id)

Switch ==
  \/ Enable
  \/ Disable

Save ==
  \/ OpMkdir
  \/ OpSaveFail
  \/ OpWrite

Commands(inputs, cap) ==
  \/ Initialize
  \/ Edit(inputs, cap)
  \/ Switch
  \/ Save

Maintenance ==
  \/ CleanupExpired
  \/ CleanupOldTargets
  \/ Reload
  \/ ReloadRead
  \/ ReloadFail
  \/ ReloadFinish

Burst(cap) ==
  \/ \E i \in Slots : AttemptFail(i, cap)
  \/ \E i \in Slots : SaveMkdir(i)
  \/ \E i \in Slots : SaveFail(i, cap)
  \/ \E i \in Slots : SaveWrite(i)
  \/ \E i \in Slots : Wake(i, cap)

\* a query: the scheduler data received and the window desired
Query(data, from, to) ==
  [data |-> data, desiredStart |-> IsoDate(from), desiredEnd |-> IsoDate(to)]

\* scheduler data in which exactly the courts of S are taken all day
Taken(S) ==
  LET cs == Ascending(S)
  IN [k \in 1..Len(cs) |-> Item(1, cs[k], IsoDate(0), IsoDate(MaxTime))]

PollInputs == {Query(Taken(S), 1, 2) : S \in SUBSET Courts}

Poll(queries) ==
  \/ \E h \in DOMAIN timers : CheckAndReserve(h, MaxInv)
  \/ \E i \in Slots, q \in queries : QueryOk(i, q)
  \/ \E i \in Slots : QueryFail(i)
  \/ \E i \in Slots : BookOk(i)
  \/ \E i \in Slots : BookFail(i)

----------------------------------------------------------------------------
(* Either service under operator commands, timer ticks, bursts and polls *)

EngineTargets == {ValidTarget(Soon), ValidTarget(Far)}

Next ==
  \/ Initialize
  \/ \E id \in KnownIds : RemoveTarget(id)
  \/ Switch
  \/ Save
  \/ Maintenance
  \/ \E h \in DOMAIN timers : RunBurst(h, MaxInv)
  \/ \E i \in Slots : AttemptOk(i)
  \/ Burst(MaxAttempts)
  \/ Poll(PollInputs)
  \/ Advance(CheckIntervalSeconds, MaxNow)

Spec == Init /\ [][Next]_vars

----------------------------------------------------------------------------
(* Bursts *)

Live(i) == invs[i].pc # "idle"

\* C1: a fighter tick that fires while a burst session of the same id is
\* registered in activeBursts opens no session and makes no booking attempt,
\* so that at most one burst session exists per target id
C1_OverlappingTickIsNoOp ==
  /\ [](engine = "fighter"
          => \A i, k \in Slots :
                (Live(i) /\ Live(k) /\ invs[i].id = invs[k].id) => i = k)
  /\ [](\A id \in DOMAIN activeBursts :
          Live(activeBursts[id]) /\ invs[activeBursts[id]].id = id)
  /\ [][\A h \in DOMAIN timers :
          (timers[h].id \in DOMAIN activeBursts /\ RunBurst(h, MaxInv))
            => UNCHANGED <<invs, activeBursts, succ, config, disk>>]_vars

\* a burst of an id in flight whose timer has been set again since the tick
\* that opened it
C1_Witness ==
  \E h \in DOMAIN timers :
     /\ enabled
     /\ timers[h].id \in DOMAIN activeBursts
     /\ Live(activeBursts[timers[h].id])
     /\ timers[h].next > invs[activeBursts[timers[h].id]].endTime - Duration
                          + CheckIntervalSeconds

----------------------------------------------------------------------------
(* A 20 s burst of one request per 5 s against a gateway that answers at    *)
(* once, with timers that fire when they are due (SpecBurst)                 *)

InitBurst ==
  /\ InitCommon
  /\ engine = "fighter"
  /\ strategy = FighterStrategy(DefaultDurationSeconds, 5 * 1000)
  /\ disk \in {File(Content(e, <<Stored(1, IsoDate(SecPerDay))>>)) : e \in BOOLEAN}
  /\ last = Unobserved
  /\ succ = Uncounted
  /\ rem = Uncounted

\* nothing is waiting for the gateway, and no timer is overdue
Prompt ==
  /\ \A i \in Slots : invs[i].pc # "attempt"
  /\ \A i \in Slots : invs[i].pc = "sleep" => now < invs[i].wakeAt
  /\ \A h \in DOMAIN timers : now < timers[h].next

NextBurst ==
  \/ Initialize
  \/ Switch
  \/ OpMkdir
  \/ OpWrite
  \/ \E h \in DOMAIN timers : RunBurst(h, MaxInv)
  \/ \E i \in Slots : AttemptFail(i, MaxBurstAttempts)
  \/ \E i \in Slots : Wake(i, MaxBurstAttempts)
  \/ Prompt /\ Advance(RequestInterval, CheckIntervalSeconds + 2 * Duration)

SpecBurst == InitBurst /\ [][NextBurst]_vars

Start(i) == invs[i].endTime - Duration

\* C5: with every attempt failing at once, the attempts of a burst are made
\* at the offsets 0, I, 2I, ... below D, one per offset
C5_AttemptsAtMultiplesOfInterval ==
  \A i \in Slots :
     invs[i].pc = "attempt"
       => /\ now - Start(i) = (invs[i].attempts - 1) * RequestInterval
          /\ now - Start(i) < Duration

----------------------------------------------------------------------------
(* The campaign store under operator commands alone, outcomes observed *)

InitStore ==
  /\ InitCommon
  /\ engine = "fighter"
  /\ strategy = FighterStrategy(2 * CheckIntervalSeconds, CheckIntervalSeconds * 1000)
  /\ disk \in {NoFile, File(Content(TRUE, << >>))}
  /\ last = NoResult
  /\ succ = Uncounted
  /\ rem = Uncounted

NextStore ==
  \/ Commands(EngineTargets, MaxTargets)
  \/ Maintenance
  \/ Advance(CheckIntervalSeconds, 2 * CheckIntervalSeconds)

SpecStore == InitStore /\ [][NextStore]_vars

----------------------------------------------------------------------------
(* The enabled flag, and removal *)

\* C7: a tick (runBurst or checkAndReserve) that fires while the enabled flag
\* is false queries nothing, attempts nothing, opens no session and changes
\* neither the store nor the job map; its timer stays armed
C7_TickWhileDisabledIsNoOp ==
  [][\A h \in DOMAIN timers :
       (~enabled /\ (RunBurst(h, MaxInv) \/ CheckAndReserve(h, MaxInv)))
         => /\ invs' = invs
            /\ activeBursts' = activeBursts
            /\ config' = config
            /\ disk' = disk
            /\ jobs' = jobs
            /\ DOMAIN timers' = DOMAIN timers
            /\ succ' = succ]_vars

\* the flag is off, a job is armed, nothing is in flight, and the job's timer
\* has just been set again
C7_Witness ==
  /\ initialized
  /\ ~enabled
  /\ now > 0
  /\ \A i \in Slots : ~Live(i)
  /\ \E id \in DOMAIN jobs :
        /\ id \in Ids(config.targets)
        /\ timers[jobs[id]].next > now

\* the ids of the stored targets a job is to be armed for at the clock
EligibleIds(targets, clock) ==
  {targets[k].id : k \in {n \in 1..Len(targets) :
                            /\ ~(getTime(targets[n].date) < clock)
                            /\ getTime(targets[n].date) - clock
                                 <= AdvanceCheckDays * SecPerDay}}

\* C8: disable() changes neither the armed jobs nor the stored targets, and
\* when a later enable() has completed the armed jobs are those of exactly
\* the eligible stored targets, one timer per id
C8_DisableKeepsJobsEnableArmsEligible ==
  [][((Disable \/ (op.cmd = "disable" /\ (OpMkdir \/ OpWrite \/ OpSaveFail)))
        => (jobs' = jobs /\ timers' = timers /\ config'.targets = config.targets))
     /\ ((op.cmd = "enable" /\ OpWrite)
        => (/\ enabled'
            /\ DOMAIN jobs' = EligibleIds(config'.targets, now)
            /\ \A h \in DOMAIN timers' : jobs'[timers'[h].id] = h))]_vars

\* C6: once removeTarget(id) has returned true no job is armed for id, so
\* that no tick for id starts any more
C6_NoJobAfterRemoval ==
  \A id \in DOMAIN rem : rem[id] >= 1 => id \notin DOMAIN jobs

----------------------------------------------------------------------------
(* Concurrent polls of one target *)

----------------------------------------------------------------------------
(* The job map (SpecStore) *)

\* C3: after any sequence of operator commands every live interval is the one
\* the jobs map holds under its target id, so at most one interval is live per
\* id and none runs unreferenced
C3_OneTimerPerId ==
  /\ \A h \in DOMAIN timers :
        timers[h].id \in DOMAIN jobs /\ jobs[timers[h].id] = h
  /\ \A id \in DOMAIN jobs : jobs[id] \in DOMAIN timers

\* two ids armed, one of them by a createJob later than the one its
\* addTarget made
C3_Witness ==
  /\ Cardinality(DOMAIN jobs) = 2
  /\ Cardinality(DOMAIN timers) = 2
  /\ last.cmd = "enable"
  /\ \E id \in DOMAIN jobs : timers[jobs[id]].next > id + CheckIntervalSeconds

----------------------------------------------------------------------------
(* Persistence failures (SpecStore) and validation (SpecValidate) *)

Mutating == {"addTarget", "removeTarget", "cleanupExpired", "cleanupOldTargets",
             "enable", "disable"}

\* C9: when save throws during addTarget, removeTarget, cleanupExpired,
\* cleanupOldTargets or setEnabled, the command has reported the failure and
\* the store in memory (target list and enabled flag) equals the durable state
C9_FailedSaveLeavesStore ==
  (op.pc = "idle" /\ last.res = "error" /\ last.cmd \in Mutating)
    => (config.targets = disk.targets /\ config.enabled = disk.enabled)

----------------------------------------------------------------------------
(* addTarget under every kind of input, outcomes observed *)

Garbage == [k |-> "garbage", v |-> 0]

NoDate == [k |-> "missing", v |-> 0]

StoreInputs ==
  {Target(c, d, st, du) :
     c \in {"52667", Missing}, d \in {Soon, Garbage, NoDate},
     st \in {"18:00", Missing},
     du \in {Num(60), Num(0), Num(-30), [k |-> "missing", v |-> 0],
             [k |-> "text", v |-> 0]}}

NextValidate ==
  \/ Commands(StoreInputs, MaxEngineTargets)
  \/ \E t \in StoreInputs : AddTargetRejected(t)
  \/ Advance(CheckIntervalSeconds, CheckIntervalSeconds)

SpecValidate == InitStore /\ [][NextValidate]_vars

\* the constraint an error message names
Names(msg) ==
  CASE msg = "court is required" -> "court"
    [] msg = "date is required" -> "date"
    [] msg = "date must be valid ISO date string" -> "date"
    [] msg = "startTime is required" -> "startTime"
    [] msg = "duration must be a positive number" -> "duration"

\* the constraints on a fighter target that t violates
Violated(t) ==
  {c \in {"court", "date", "startTime", "duration"} :
     \/ c = "court" /\ t.court = Missing
     \/ c = "date" /\ t.date.k \in {"missing", "garbage"}
     \/ c = "startTime" /\ t.startTime = Missing
     \/ c = "duration" /\ (t.duration.k = "missing"
                            \/ (t.duration.k = "num" /\ t.duration.v <= 0))}

\* the step in which addTarget threw "Invalid target: ..."
Rejection ==
  /\ Ready
  /\ op'.pc = "idle"
  /\ now' = now
  /\ last'.cmd = "addTarget"
  /\ last'.res = "rejected"

\* C10: addTarget with a target that violates a constraint fails with an
\* error naming every violated constraint, and leaves the stored targets, the
\* durable state and the job map as they were
C10_RejectionListsEveryViolation ==
  [][/\ (Ready /\ op'.cmd = "addTarget") =>
          \A t \in StoreInputs : Violated(t) # {} => ~AddTarget(t, MaxEngineTargets)
     /\ Rejection =>
          /\ Violated(last'.arg) # {}
          /\ Violated(last'.arg) \subseteq
               {Names(last'.errors[k]) : k \in 1..Len(last'.errors)}
          /\ config' = config
          /\ disk' = disk
          /\ timers' = timers
          /\ jobs' = jobs]_vars

\* a rejection naming two or more constraints, with a target stored and armed
C10_Witness ==
  /\ last.cmd = "addTarget"
  /\ last.res = "rejected"
  /\ Len(last.errors) >= 2
  /\ config.targets # << >>
  /\ jobs # << >>

----------------------------------------------------------------------------
(* removeTarget twice: the store of at most MaxEngineTargets targets under  *)
(* the commands, removals counted (SpecRemove)                              *)

InitRemove ==
  /\ InitCommon
  /\ engine = "fighter"
  /\ strategy = FighterStrategy(2 * CheckIntervalSeconds, CheckIntervalSeconds * 1000)
  /\ disk \in {NoFile, File(Content(TRUE, << >>))}
  /\ last = NoResult
  /\ succ = Uncounted
  /\ rem = << >>

NextRemove ==
  \/ Commands(EngineTargets, MaxEngineTargets)
  \/ Advance(CheckIntervalSeconds, CheckIntervalSeconds)

SpecRemove == InitRemove /\ [][NextRemove]_vars

\* C11: removeTarget(id) on a present id removes it, persists and returns
\* true; a call with an id that is not stored (as in an immediately following
\* second call) returns false, starts no save and leaves the target list, the
\* durable state and the job map unchanged
C11_RemoveTargetIdempotent ==
  [][/\ (op.cmd = "removeTarget" /\ OpWrite) =>
          /\ last'.res = "true"
          /\ op.arg \notin Ids(config'.targets)
          /\ op.arg \notin Ids(disk'.targets)
          /\ op.arg \notin DOMAIN jobs'
     /\ \A id \in KnownIds :
          ((id \notin Ids(config.targets)
             \/ (last.cmd = "removeTarget" /\ last.res = "true" /\ last.arg.id = id))
            /\ RemoveTarget(id))
          => /\ last'.res = "false"
             /\ UNCHANGED <<config, disk, timers, jobs, op, succ>>]_vars

\* a second removeTarget of an id returned false after the first returned
\* true, while the file exists
C11_Witness ==
  /\ last.cmd = "removeTarget"
  /\ last.res = "false"
  /\ Count(rem, last.arg.id) >= 1
  /\ disk.exists

----------------------------------------------------------------------------
(* cleanupExpired *)

\* the step in which cleanupExpired found nothing to remove and returned
CleanupExpiredNothing == CleanupExpired /\ op'.pc = "idle" /\ now' = now

\* the step in which the save of a cleanupExpired resolved and it returned
CleanupExpiredSaved == op.cmd = "cleanupExpired" /\ OpWrite

\* the step in which a cleanupExpired returned
CleanupExpiredReturned == CleanupExpiredNothing \/ CleanupExpiredSaved

----------------------------------------------------------------------------
(* cleanupOldTargets: the store with targets dated around the 28 day cutoff *)
(* (SpecOld)                                                                *)

AtCutoff == IsoDate(CutoffDays * SecPerDay)

Beyond == IsoDate(CutoffDays * SecPerDay + CheckIntervalSeconds)

OldInputs == {ValidTarget(Soon), ValidTarget(AtCutoff), ValidTarget(Beyond)}

NextOld ==
  \/ Commands(OldInputs, MaxTargets)
  \/ CleanupOldTargets
  \/ Advance(CheckIntervalSeconds, CheckIntervalSeconds)

SpecOld == InitStore /\ [][NextOld]_vars

\* C13, amended: cleanupOldTargets removes exactly the targets whose date is
\* earlier than 28 days from now, keeps in their order the targets dated 28
\* days from now or later, and returns the number removed
C13_CleanupOldRemovesNear ==
  [][/\ CleanupOldTargets =>
          /\ config'.targets =
               SelectSeq(config.targets,
                         LAMBDA t : ~(getTime(t.date) - now < CutoffDays * SecPerDay))
          /\ IF op'.pc = "idle"
             THEN Len(config'.targets) = Len(config.targets) /\ last'.n = 0
             ELSE /\ op'.arg = Len(config.targets) - Len(config'.targets)
                  /\ op'.arg > 0
     /\ (op.cmd = "cleanupOldTargets" /\ OpWrite) => last'.n = op.arg]_vars

\* a cleanupOldTargets has returned 1, and a target is kept
C13_Witness ==
  /\ last.cmd = "cleanupOldTargets"
  /\ last.n = 1
  /\ Len(config.targets) = 1
  /\ disk.targets = config.targets

\* C13 as stated: cleanupOldTargets removes exactly the targets dated farther
\* in the future than the 28 day window and keeps those within it
C13_CleanupOldRemovesFar ==
  [][CleanupOldTargets =>
       config'.targets =
         SelectSeq(config.targets,
                   LAMBDA t : ~(getTime(t.date) - now > CutoffDays * SecPerDay))]_vars

----------------------------------------------------------------------------
(* addTarget around the lead window: targets dated at the start of the     *)
(* clock, one tick ahead, and one tick beyond the advance window (SpecAdd)  *)

Epoch == IsoDate(0)

Edge == IsoDate(AdvanceCheckDays * SecPerDay + CheckIntervalSeconds)

AddInputs == {ValidTarget(Epoch), ValidTarget(Soon), ValidTarget(Edge)}

NextAdd ==
  \/ Commands(AddInputs, MaxTargets)
  \/ Advance(CheckIntervalSeconds, CheckIntervalSeconds)

SpecAdd == InitStore /\ [][NextAdd]_vars

\* the step in which addTarget returned the stored target
Added == op.cmd = "addTarget" /\ OpWrite

\* the date of target t has not elapsed and is at most advanceCheckDays away
InWindow(t, clock) ==
  /\ ~(getTime(t.date) < clock)
  /\ getTime(t.date) - clock <= AdvanceCheckDays * SecPerDay

\* C14: when addTarget returns, the target is stored; with the engine enabled
\* a timer has been armed for it if and only if its date has not elapsed and
\* is at most advanceCheckDays away; with the engine disabled no timer is armed
C14_AddTargetArmsInWindow ==
  [][Added =>
       /\ \E k \in 1..Len(config'.targets) : config'.targets[k] = op.arg
       /\ \E k \in 1..Len(disk'.targets) : disk'.targets[k] = op.arg
       /\ (enabled /\ InWindow(op.arg, now)) =>
             /\ op.arg.id \in DOMAIN jobs'
             /\ jobs'[op.arg.id] \in DOMAIN timers'
             /\ timers'[jobs'[op.arg.id]] =
                  [id |-> op.arg.id, next |-> now + CheckIntervalSeconds]
             /\ Cardinality(DOMAIN timers') =
                  Cardinality(DOMAIN timers \ {jobs[id] : id \in DOMAIN jobs \cap {op.arg.id}}) + 1
       /\ (enabled /\ ~InWindow(op.arg, now)) => (jobs' = jobs /\ timers' = timers)
       /\ ~enabled => (jobs' = jobs /\ timers' = timers)]_vars

\* addTarget has returned with the engine enabled, and of the two stored
\* targets one is armed and the other, outside the window, is not
C14_Witness ==
  /\ last.cmd = "addTarget"
  /\ last.res = "ok"
  /\ enabled
  /\ Len(config.targets) = 2
  /\ Cardinality(DOMAIN jobs) = 1
  /\ \E k \in 1..2 : ~InWindow(config.targets[k], now)

----------------------------------------------------------------------------
(* reload and initialize (SpecStore) *)

\* C15: when reload() or initialize() completes, the enabled flag is that of
\* the loaded config, the armed job ids are the ids of the stored targets that
\* are unexpired and within the lead window if the config is enabled and none
\* if it is disabled, and every live timer is one armed in this step: reload
\* drops every job before it loads
C15_ReloadRebuildsJobs ==
  [][/\ Reload => (jobs' = << >> /\ timers' = << >>)
     /\ (ReloadFinish \/ Initialize) =>
          /\ enabled' = config'.enabled
          /\ DOMAIN jobs' = IF config'.enabled
                            THEN EligibleIds(config'.targets, now) ELSE {}
          /\ DOMAIN timers' = {jobs'[id] : id \in DOMAIN jobs'}
          /\ \A id \in DOMAIN jobs' :
                timers'[jobs'[id]] = [id |-> id, next |-> now + CheckIntervalSeconds]]_vars

\* a reload has completed with the engine enabled, one stored target armed
\* and another, outside the lead window, not armed
C15_Witness ==
  /\ last.cmd = "reload"
  /\ last.res = "ok"
  /\ enabled
  /\ Len(config.targets) = 2
  /\ Cardinality(DOMAIN jobs) = 1
  /\ now > 0

----------------------------------------------------------------------------
(* Conflict detection of the waitlist scheduler (SpecCourts) *)

\* the Start and End strings of a scheduler record: the proper spans of the
\* day's instants, and spans of which one or both ends do not parse
Spans ==
  {<<IsoDate(p[1]), IsoDate(p[2])>> :
     p \in {p \in (0..MaxTime) \X (0..MaxTime) : p[1] < p[2]}}

Malformed == {<<Garbage, IsoDate(MaxTime)>>, <<IsoDate(0), Garbage>>, <<Garbage, Garbage>>}

Items == {Item(rid, c, sp[1], sp[2]) :
            rid \in {0, 1}, c \in Courts, sp \in Spans \cup Malformed}

Datas == UNION {[1..n -> Items] : n \in 0..MaxRecords}

CourtInputs == {Query(data, 1, 2) : data \in Datas}

\* the waitlist scheduler with one stored target, enabled
InitCourts ==
  /\ InitCommon
  /\ engine = "waitlist"
  /\ strategy = PollStrategy
  /\ disk = File(Content(TRUE, <<Stored(1, IsoDate(SchedulerCheckIntervalSeconds))>>))
  /\ last = NoResult
  /\ succ = Uncounted
  /\ rem = Uncounted

NextCourts ==
  \/ Initialize
  \/ Advance(SchedulerCheckIntervalSeconds, SchedulerCheckIntervalSeconds)
  \/ \E h \in DOMAIN timers : CheckAndReserve(h, 1)
  \/ \E i \in Slots : invs[i].pc = "query" /\ \E q \in CourtInputs : QueryOk(i, q)
  \/ \E i \in Slots : BookFail(i)

SpecCourts == InitCourts /\ [][NextCourts]_vars

Queried == last.cmd = "findAvailableCourts"

Range(s) == {s[k] : k \in DOMAIN s}

\* a record that counts: ReservationId > 0
Real(item) == item.ReservationId > 0

WellFormed(item) == item.Start.k = "iso" /\ item.End.k = "iso"

\* the real, well-formed records of a court
Booked(data, c) ==
  {k \in 1..Len(data) : Real(data[k]) /\ data[k].CourtId = c /\ WellFormed(data[k])}

\* [a0, a1) and [b0, b1) have an instant in common
ShareInstant(a0, a1, b0, b1) ==
  \E t \in 0..MaxTime : a0 <= t /\ t < a1 /\ b0 <= t /\ t < b1

\* C16: for a desired window [a0, a1) and a real reservation [b0, b1) of the
\* same court, _hasTimeConflict reports a conflict exactly when a0 < b1 and
\* a1 > b0: windows that only touch or are disjoint do not conflict, windows
\* that share an instant do
C16_ConflictIffOverlap ==
  Queried =>
    LET q == last.arg.q
        a0 == getTime(q.desiredStart)
        a1 == getTime(q.desiredEnd)
    IN \A c \in Courts : \A k \in Booked(q.data, c) :
          LET b0 == getTime(q.data[k].Start)
              b1 == getTime(q.data[k].End)
              conflict == hasTimeConflict(<<q.data[k]>>, c, q.desiredStart, q.desiredEnd)
          IN /\ conflict <=> (a0 < b1 /\ a1 > b0)
             /\ (b1 <= a0 \/ a1 <= b0) => ~conflict
             /\ conflict <=> ShareInstant(a0, a1, b0, b1)
             /\ conflict => c \notin Range(last.arg.courts)

\* a query has been answered whose data hold a real reservation that ends
\* where the desired window starts, on a court reported free, and a real
\* reservation that overlaps the window, on a court not reported free
C16_Witness ==
  /\ Queried
  /\ LET q == last.arg.q
     IN /\ \E c \in Range(last.arg.courts) : \E k \in Booked(q.data, c) :
             q.data[k].End = q.desiredStart
        /\ \E c \in Courts \ Range(last.arg.courts) : \E k \in Booked(q.data, c) :
             /\ getTime(q.data[k].Start) < getTime(q.desiredStart)
             /\ q.data[k].End = q.desiredEnd

\* the desired window of q overlaps the well-formed reservation item
Overlaps(q, item) ==
  /\ getTime(q.desiredStart) < getTime(item.End)
  /\ getTime(q.desiredEnd) > getTime(item.Start)

\* the courts of the range with no real reservation overlapping the window
FreeCourts(q) ==
  {c \in Courts : \A k \in Booked(q.data, c) : ~Overlaps(q, q.data[k])}

\* C17: findAvailableCourts returns, in ascending order and without
\* duplicates, exactly the court ids of [courtIdStart, courtIdEnd] that have
\* no real reservation overlapping the desired window; with no records it
\* returns the whole range
C17_FreeCourtsAscending ==
  Queried =>
    LET q == last.arg.q
        courts == last.arg.courts
    IN /\ courts = Ascending(FreeCourts(q))
       /\ Len(courts) = Cardinality(Range(courts))
       /\ \A k \in 1..(Len(courts) - 1) : courts[k] < courts[k + 1]
       /\ Range(courts) \subseteq CourtIdStart..CourtIdEnd
       /\ q.data = << >> => Range(courts) = CourtIdStart..CourtIdEnd

\* a query has been answered in which the last court of the range, listed
\* first in the data with a reservation that does not overlap, is the one
\* court reported free, the first court being taken
C17_Witness ==
  /\ Queried
  /\ last.arg.courts = <<CourtIdEnd>>
  /\ Len(last.arg.q.data) = 2
  /\ last.arg.q.data[1].CourtId = CourtIdEnd
  /\ 1 \in Booked(last.arg.q.data, CourtIdEnd)
  /\ 2 \in Booked(last.arg.q.data, CourtIdStart)

\* a record with ReservationId <= 0 that spans the whole day on court c
Sentinel(c) == Item(0, c, IsoDate(0), IsoDate(MaxTime))

\* C18: a record with ReservationId <= 0 never causes a conflict, and the
\* result of findAvailableCourts is the same with such records removed from
\* the data or added to them
C18_SentinelsIgnored ==
  Queried =>
    LET q == last.arg.q
        courts == last.arg.courts
    IN /\ \A k \in 1..Len(q.data) :
            ~Real(q.data[k]) =>
              ~hasTimeConflict(<<q.data[k]>>, q.data[k].CourtId,
                               q.desiredStart, q.desiredEnd)
       /\ courts = findAvailableCourts(SelectSeq(q.data, Real),
                                       q.desiredStart, q.desiredEnd)
       /\ \A c \in Courts :
            /\ courts = findAvailableCourts(<<Sentinel(c)>> \o q.data,
                                            q.desiredStart, q.desiredEnd)
            /\ courts = findAvailableCourts(q.data \o <<Sentinel(c)>>,
                                            q.desiredStart, q.desiredEnd)

\* a query has been answered whose data hold a record with ReservationId 0
\* that overlaps the desired window on a court reported free and a real
\* reservation that overlaps it on a court not reported free
C18_Witness ==
  /\ Queried
  /\ LET q == last.arg.q
     IN /\ \E k \in 1..Len(q.data) :
             /\ ~Real(q.data[k])
             /\ WellFormed(q.data[k])
             /\ Overlaps(q, q.data[k])
             /\ q.data[k].CourtId \in Range(last.arg.courts)
        /\ \E c \in Courts \ Range(last.arg.courts) :
             \E k \in Booked(q.data, c) : Overlaps(q, q.data[k])

\* C19: a real record (ReservationId > 0) whose Start or End does not parse
\* counts as a conflict for its court: the court is not reported free and no
\* booking is attempted on it
C19_MalformedRecordBlocksCourt ==
  Queried =>
    LET q == last.arg.q
    IN \A k \in 1..Len(q.data) :
          (Real(q.data[k]) /\ ~WellFormed(q.data[k])) =>
            /\ q.data[k].CourtId \notin Range(last.arg.courts)
            /\ \A i \in Slots : q.data[k].CourtId \notin Range(invs[i].avail)

----------------------------------------------------------------------------
(* The end of a polling tick (Spec) *)

\* frame i, a checkAndReserve, returns in this step
TickEnds(i) == engine = "waitlist" /\ Live(i) /\ invs'[i].pc = "idle"

\* a booking of frame i has succeeded by the end of this step
Booked1(i) == invs[i].success \/ BookOk(i)

\* C20: when a polling tick ends after at least one successful booking, its
\* target is not among the stored targets in memory and no job is armed for
\* its id; when it ends with no successful booking, the tick has left the
\* target stored and its job armed
C20_TickEndsRemovedOrArmed ==
  [][\A i \in Slots :
       TickEnds(i) =>
         LET id == invs[i].id
         IN IF Booked1(i)
            THEN /\ id \notin Ids(config'.targets)
                 /\ id \notin DOMAIN jobs'
            ELSE /\ id \in Ids(config.targets) => id \in Ids(config'.targets)
                 /\ id \in Ids(disk.targets) => id \in Ids(disk'.targets)
                 /\ id \in DOMAIN jobs =>
                      (id \in DOMAIN jobs' /\ jobs'[id] = jobs[id]
                       /\ jobs'[id] \in DOMAIN timers')]_vars

----------------------------------------------------------------------------
(* A 20 s burst of one request per 5 s, its events observed, under enable   *)
(* and disable and every outcome of the requests and saves (SpecSession)    *)

InitSession ==
  /\ InitCommon
  /\ engine = "fighter"
  /\ strategy = FighterStrategy(DefaultDurationSeconds, 5 * 1000)
  /\ disk = File(Content(TRUE, <<Stored(1, IsoDate(SecPerDay))>>))
  /\ last = NoResult
  /\ succ = Uncounted
  /\ rem = Uncounted

NextSession ==
  \/ Initialize
  \/ Switch
  \/ Save
  \/ \E h \in DOMAIN timers : RunBurst(h, MaxInv)
  \/ \E i \in Slots : AttemptOk(i)
  \/ Burst(MaxBurstAttempts)
  \/ Advance(RequestInterval, CheckIntervalSeconds + 2 * Duration)

SpecSession == InitSession /\ [][NextSession]_vars

\* frame i, a burst, returns in this step
BurstEnds(i) == engine = "fighter" /\ Live(i) /\ invs'[i].pc = "idle"

\* the last event of the latest turn that emitted any
LastEvent == last.arg[Len(last.arg)]

\* C21: when a burst ends because its duration has elapsed and no attempt of
\* it succeeded, its id leaves activeBursts, burstComplete is emitted with
\* the number of attempts made and success = false, and the step changes
\* neither the stored targets nor the armed jobs: the job of the id is armed
C21_ExhaustedBurstClosesAndStays ==
  [][\A i \in Slots :
       (BurstEnds(i) /\ ~invs[i].success /\ ~AttemptOk(i) /\ now >= invs[i].endTime)
         => /\ invs[i].id \notin DOMAIN activeBursts'
            /\ last'.cmd = "emit"
            /\ LastEvent' = Event("burstComplete", invs[i].id, invs[i].attempts, FALSE)
            /\ config' = config
            /\ disk' = disk
            /\ jobs' = jobs
            /\ timers' = timers
            /\ invs[i].id \in DOMAIN jobs']_vars

\* a burst of several attempts has just ended at its end time without a
\* success: no session is open, the target is stored and its job armed
C21_Witness ==
  /\ engine = "fighter"
  /\ last.cmd = "emit"
  /\ LastEvent.name = "burstComplete"
  /\ LastEvent.detail = FALSE
  /\ LastEvent.n >= 4
  /\ activeBursts = << >>
  /\ LastEvent.id \in Ids(config.targets) \cap Ids(disk.targets) \cap DOMAIN jobs
  /\ now >= CheckIntervalSeconds + Duration

\* the latest turn that emitted events began with the rejection, as an
\* authentication error, of the attempt frame f is at
Unauthorized(f, outcome) ==
  /\ outcome.cmd = "emit"
  /\ outcome.arg[1] = requestFailed(f, "unauthorized")

\* C22: after an attempt of a burst was rejected as an authentication error
\* the burst makes no further booking attempt, neither at once nor after the
\* delay, and the rejection changes neither the stored targets nor the jobs
C22_NoAttemptAfterUnauthorized ==
  [][\A i \in Slots :
       /\ (AttemptFail(i, MaxBurstAttempts) /\ Unauthorized(invs[i], last'))
            => (invs'[i].pc # "attempt" /\ config' = config /\ jobs' = jobs)
       /\ (Wake(i, MaxBurstAttempts) /\ Unauthorized(invs[i], last))
            => invs'[i].pc # "attempt"]_vars

----------------------------------------------------------------------------
(* The delay between the requests of a burst (SpecBurst) *)

\* C25: a burst never starts a request in the turn in which its previous
\* request was rejected, and a request that follows a wait starts no sooner
\* than the inter-request delay after the rejection: consecutive requests
\* are at least requestIntervalMs apart, up to the end of the burst
C25_RequestsSpacedByInterval ==
  [][\A i \in Slots :
       /\ (invs[i].pc = "attempt" /\ invs'[i].pc = "attempt")
            => invs'[i].attempts = invs[i].attempts
       /\ (invs[i].pc = "sleep" /\ invs'[i].pc = "attempt")
            => now >= invs[i].wakeAt]_vars

----------------------------------------------------------------------------
(* Bursts when every call returns and the clock runs (SpecLive) *)

\* the last instant of the model's clock
Horizon == CheckIntervalSeconds + DefaultDurationSeconds + 5

\* the fighter with one stored target; successes and removals are counted
InitLive ==
  /\ InitCommon
  /\ engine = "fighter"
  /\ strategy = FighterStrategy(DefaultDurationSeconds, 5 * 1000)
  /\ disk = File(Content(TRUE, <<Stored(1, IsoDate(SecPerDay))>>))
  /\ last = Unobserved
  /\ succ = << >>
  /\ rem = << >>

\* ticks fire while the burst they start ends within the horizon
NextLive ==
  \/ Initialize
  \/ Switch
  \/ Save
  \/ \E h \in DOMAIN timers : now + Duration <= Horizon /\ RunBurst(h, MaxInv)
  \/ \E i \in Slots : AttemptOk(i)
  \/ Burst(MaxBurstAttempts)
  \/ Advance(RequestInterval, Horizon)

\* makeReservation resolves or rejects
Answered == \E i \in Slots : AttemptOk(i) \/ AttemptFail(i, MaxBurstAttempts)

\* mkdir and writeFile of a burst's save resolve or reject
Saved == \E i \in Slots : SaveMkdir(i) \/ SaveFail(i, MaxBurstAttempts) \/ SaveWrite(i)

\* a setTimeout that is due fires
Woken == \E i \in Slots : Wake(i, MaxBurstAttempts)

SpecLive ==
  /\ InitLive
  /\ [][NextLive]_vars
  /\ WF_vars(Answered)
  /\ WF_vars(Saved)
  /\ WF_vars(Woken)
  /\ WF_vars(Advance(RequestInterval, Horizon))

\* C24: every burst that registered a session returns and its id leaves
\* activeBursts, whichever way its requests and saves end, and no attempt of
\* a burst starts at or after the burst's end time
C24_BurstSessionCloses ==
  /\ \A i \in Slots : Live(i) ~> ~Live(i)
  /\ \A id \in 1..MaxTargets : (id \in DOMAIN activeBursts) ~> (id \notin DOMAIN activeBursts)
  /\ [][\A i \in Slots :
          (invs'[i].pc = "attempt" /\ invs'[i].attempts # invs[i].attempts)
            => now < invs'[i].endTime]_vars
  /\ [][\A i \in Slots :
          BurstEnds(i) => invs[i].id \notin DOMAIN activeBursts']_vars

\* the burst of target 1 has closed after two successful requests, the
\* removal after the first having failed: no session is open, no frame is
\* live and the job is gone
C24_Witness ==
  /\ Count(succ, 1) = 2
  /\ activeBursts = << >>
  /\ \A i \in Slots : ~Live(i)
  /\ 1 \notin DOMAIN jobs
  /\ now < Horizon

----------------------------------------------------------------------------
(* Polling ticks (Spec) *)

----------------------------------------------------------------------------
(* Polling ticks of two targets, their events observed (SpecPoll) *)

InitPoll ==
  /\ InitCommon
  /\ engine = "waitlist"
  /\ strategy = PollStrategy
  /\ disk = File(Content(TRUE, <<Stored(1, IsoDate(SecPerDay)),
                                  Stored(2, IsoDate(SecPerDay))>>))
  /\ last = NoResult
  /\ succ = << >>
  /\ rem = Uncounted

NextPoll ==
  \/ Initialize
  \/ Poll(PollInputs)
  \/ \E i \in Slots : SaveMkdir(i)
  \/ \E i \in Slots : SaveFail(i, MaxCourts)
  \/ \E i \in Slots : SaveWrite(i)
  \/ Advance(SchedulerCheckIntervalSeconds, SchedulerCheckIntervalSeconds)

SpecPoll == InitPoll /\ [][NextPoll]_vars

\* frame i is in the loop over the free courts, about to book or booking
Booking(i) == engine = "waitlist" /\ invs[i].pc = "book"

\* makeReservation of frame i settles in this step
Books(i) == BookOk(i) \/ BookFail(i)

\* C26: every court findAvailableCourts returned gets exactly one booking
\* attempt in the tick, whatever the outcome of the other attempts: the
\* frame enters the loop with the whole list, each settled attempt, resolved
\* or rejected, takes the first court off the list, and the frame leaves the
\* loop only when the list is empty
C26_EveryFreeCourtAttemptedOnce ==
  /\ [](\A i \in Slots : Booking(i) => invs[i].avail # << >>)
  /\ [][\A i \in Slots :
          /\ (invs[i].pc = "query" /\ invs'[i].pc = "book")
               => (/\ Queried'
                   /\ invs'[i].avail = last'.arg.courts
                   /\ invs'[i].attempts = 0)
          /\ (Booking(i) /\ Books(i))
               => IF Tail(invs[i].avail) # << >>
                  THEN /\ invs'[i].pc = "book"
                       /\ invs'[i].avail = Tail(invs[i].avail)
                       /\ invs'[i].attempts = invs[i].attempts + 1
                  ELSE invs'[i].pc # "book"
          /\ (Booking(i) /\ ~Books(i)) => invs'[i] = invs[i]]_vars

\* a tick has attempted every free court, one attempt rejected and one
\* resolved, and the frame is saving the removal
C26_Witness ==
  \E i \in Slots :
     /\ engine = "waitlist"
     /\ invs[i].pc = "mkdir"
     /\ invs[i].attempts = MaxCourts
     /\ Count(succ, invs[i].id) = 1
     /\ \A k \in Slots \ {i} : ~Live(k)

\* the turn that leads to this state emitted a reservationError for id
ErrorEmitted(outcome, id) ==
  /\ outcome.cmd = "emit"
  /\ \E k \in 1..Len(outcome.arg) : outcome.arg[k] = Event("reservationError", id, 0, "error")

\* C27: a polling tick that attempted one or more free courts and ends with
\* no booking made emits reservationError, and every successful booking
\* emits one reservationSuccess
C27_FailedTickNotifies ==
  [][\A i \in Slots :
       /\ (TickEnds(i) /\ BookFail(i) /\ ~invs[i].success)
            => (last' # last /\ ErrorEmitted(last', invs[i].id))
       /\ BookOk(i)
            => Count(succ', invs[i].id)
                 = IF Count(succ, invs[i].id) >= 1 THEN 2 ELSE 1]_vars

\* a call awaited by frame i, a checkAndReserve, rejects in this step
Rejected(i) ==
  engine = "waitlist" /\ (QueryFail(i) \/ BookFail(i) \/ SaveFail(i, MaxCourts))

\* C28: whichever call of a polling tick rejects, the scheduler data query,
\* a booking or the save of the removal, checkAndReserve catches it: a failed
\* query or removal emits reservationError and the invocation returns, a
\* failed booking emits nothing and the loop goes on, no rejection is left
\* unhandled, and the jobs of the other targets and the other invocations
\* are untouched
C28_NoRejectionLeavesTheTick ==
  /\ [](last.cmd = "emit"
          => \A k \in 1..Len(last.arg) : last.arg[k].name # "unhandledRejection")
  /\ [][\A i \in Slots :
          Rejected(i)
            => /\ IF invs[i].pc = "book"
                  THEN last' = last /\ invs'[i].pc \in {"book", "mkdir", "idle"}
                  ELSE /\ invs'[i].pc = "idle"
                       /\ last'.cmd = "emit"
                       /\ last'.arg = <<reservationError(invs[i])>>
               /\ enabled' = enabled
               /\ \A k \in Slots \ {i} : invs'[k] = invs[k]
               /\ \A id \in DOMAIN jobs \ {invs[i].id} :
                     /\ id \in DOMAIN jobs'
                     /\ jobs'[id] = jobs[id]
                     /\ jobs[id] \in DOMAIN timers'
                     /\ timers'[jobs[id]] = timers[jobs[id]]]_vars

\* the removal after a booking has just failed: reservationError was
\* emitted for the target, its invocation has returned, and the invocation
\* of the other target is still in flight, both jobs armed
C28_Witness ==
  /\ engine = "waitlist"
  /\ last.cmd = "emit"
  /\ \E id \in DOMAIN jobs :
        /\ last.arg = <<Event("reservationError", id, 0, "error")>>
        /\ Count(succ, id) >= 1
        /\ \A i \in Slots : Live(i) => invs[i].id # id
        /\ \E i \in Slots : Live(i) /\ invs[i].id \in DOMAIN jobs

\* the courts of a list are in strictly ascending order of their ids
StrictlyAscending(cs) == \A k \in 1..(Len(cs) - 1) : cs[k] < cs[k + 1]

\* frame i is past the scheduler data query of its tick
PastQuery(i) == invs[i].pc \in {"book", "mkdir", "write"}

\* C29: a polling tick queries the scheduler data once, before any booking:
\* an invocation starts at the query with no attempt made, reaches the
\* booking loop only from the query and never queries again. The courts
\* waiting for their attempt are in strictly ascending order of id, each
\* attempt is on the first of them, so on a lower id than all that follow,
\* and one attempt is settled before the next one is made
C29_OneQueryThenAscendingAttempts ==
  /\ [](\A i \in Slots :
          /\ invs[i].pc = "query" => invs[i].attempts = 0 /\ invs[i].avail = << >>
          /\ Booking(i) => StrictlyAscending(invs[i].avail))
  /\ [][\A i \in Slots :
          /\ invs'[i].pc = "query" => invs[i].pc \in {"idle", "query"}
          /\ (invs'[i].pc = "book" /\ invs[i].pc # "book") => invs[i].pc = "query"
          /\ PastQuery(i) => invs'[i].pc # "query"
          /\ (Booking(i) /\ invs'[i].attempts # invs[i].attempts /\ Live(i)')
               => /\ Books(i)
                  /\ invs'[i].attempts = invs[i].attempts + 1
                  /\ \A k \in 1..Len(invs'[i].avail) :
                        invs[i].avail[1] < invs'[i].avail[k]]_vars

\* the attempt on the lowest free court is settled and the attempt on the
\* highest is in flight, in a tick that queried the scheduler data once
C29_Witness ==
  \E i \in Slots :
     /\ engine = "waitlist"
     /\ invs[i].pc = "book"
     /\ invs[i].attempts = MaxCourts - 1
     /\ invs[i].avail = <<CourtIdEnd>>

----------------------------------------------------------------------------
(* A burst in flight when the service is disabled (SpecSession) *)

\* frame i starts a request in this step
StartsRequest(i) ==
  /\ invs'[i].pc = "attempt"
  /\ invs[i].pc # "attempt" \/ invs'[i].attempts # invs[i].attempts

\* C30: a burst starts a request only while the enabled flag is true: once
\* disable() has set the flag to false, the request in flight is only
\* settled and the delay in progress only runs out, and the burst that then
\* leaves its loop without a booking closes its session with burstComplete
\* and changes neither the stored targets nor the jobs
C30_DisabledBurstStartsNoRequest ==
  [][\A i \in Slots :
       /\ (engine = "fighter" /\ StartsRequest(i)) => enabled /\ enabled'
       /\ (~enabled /\ Wake(i, MaxBurstAttempts)) => invs'[i].pc = "idle"
       /\ (~enabled /\ AttemptFail(i, MaxBurstAttempts))
            => invs'[i].pc \in {"sleep", "idle"}
       /\ (~enabled /\ BurstEnds(i) /\ ~invs[i].success /\ ~AttemptOk(i))
            => /\ invs[i].id \notin DOMAIN activeBursts'
               /\ last'.cmd = "emit"
               /\ LastEvent'.name = "burstComplete"
               /\ LastEvent'.id = invs[i].id
               /\ config'.targets = config.targets
               /\ disk' = disk
               /\ jobs' = jobs
               /\ timers' = timers]_vars

\* a burst has ended before its end time because the service was disabled
\* while it ran: no booking, no session open, the target stored, its job
\* armed
C30_Witness ==
  /\ engine = "fighter"
  /\ ~enabled
  /\ last.cmd = "emit"
  /\ LastEvent.name = "burstComplete"
  /\ LastEvent.detail = FALSE
  /\ LastEvent.n >= 1
  /\ now < CheckIntervalSeconds + Duration
  /\ activeBursts = << >>
  /\ LastEvent.id \in Ids(config.targets) \cap DOMAIN jobs

----------------------------------------------------------------------------
(* Bursts across a shutdown of the fighter (SpecShutdown) *)

\* ReservationFighter.shutdown: removeAllJobs, activeBursts.clear,
\* initialized = false; the bursts in flight are not told
Shutdown ==
  /\ engine = "fighter"
  /\ initialized
  /\ timers' = << >>
  /\ jobs' = << >>
  /\ activeBursts' = << >>
  /\ initialized' = FALSE
  /\ last' = Observe(<<Event("shutdown", 0, 0, "none")>>)
  /\ UNCHANGED <<checker, engine, now, strategy, disk, config, enabled, invs, op, succ, rem>>

InitShutdown ==
  /\ InitCommon
  /\ engine = "fighter"
  /\ strategy = FighterStrategy(2 * CheckIntervalSeconds, CheckIntervalSeconds * 1000)
  /\ disk = File(Content(TRUE, <<Stored(1, IsoDate(SecPerDay))>>))
  /\ last = Unobserved
  /\ succ = << >>
  /\ rem = << >>

NextShutdown ==
  \/ Initialize
  \/ Shutdown
  \/ Switch
  \/ Save
  \/ \E h \in DOMAIN timers : RunBurst(h, MaxInv)
  \/ \E i \in Slots : AttemptOk(i)
  \/ Burst(MaxAttempts)
  \/ Advance(CheckIntervalSeconds, MaxNow)

SpecShutdown == InitShutdown /\ [][NextShutdown]_vars

\* C31: whatever operations are issued while a burst is in flight, shutdown
\* and a new initialize among them, at most one burst loop per target id is
\* executing, and every burst loop still executing has its id in
\* activeBursts
C31_OneRegisteredBurstLoopPerId ==
  engine = "fighter"
    => /\ \A i \in Slots : Live(i) => invs[i].id \in DOMAIN activeBursts
       /\ \A i, k \in Slots :
             (Live(i) /\ Live(k) /\ invs[i].id = invs[k].id) => i = k

----------------------------------------------------------------------------
(* Invocations in flight when their target is removed (Spec) *)

\* frame i has a booking request in flight
Attempting(i) ==
  \/ engine = "fighter" /\ invs[i].pc = "attempt"
  \/ engine = "waitlist" /\ invs[i].pc = "book"

\* frame i initiates a booking request in this step
Initiates(i) ==
  /\ Attempting(i)'
  /\ ~Attempting(i) \/ invs'[i].attempts # invs[i].attempts

\* C32: once a removeTarget(id) has returned true, no booking attempt is
\* initiated for id, not even by a burst that was in flight when the
\* removal was requested, and no reservationSuccess is emitted for id
C32_NoAttemptAfterRemoval ==
  [][\A i \in Slots :
       (engine = "fighter" /\ Count(rem, invs'[i].id) >= 1)
         => /\ ~Initiates(i)
            /\ (Live(i) /\ invs[i].id = invs'[i].id)
                 => Count(succ', invs[i].id) = Count(succ, invs[i].id)]_vars

----------------------------------------------------------------------------
(* The job map against the stored targets (Spec) *)

\* no command, reload, burst or polling tick is in progress
Quiescent == op.pc = "idle" /\ \A i \in Slots : ~Live(i)

\* C33: whenever no engine operation is in progress every id of the job map
\* is the id of a stored target, also after an operation whose save failed
C33_NoOrphanJobs ==
  Quiescent => DOMAIN jobs \subseteq Ids(config.targets)

----------------------------------------------------------------------------
(* The ids addTarget generates (SpecAdd) *)

\* C34: the id addTarget has given the target it returns is the id of no
\* target the config file already holds, so that the stored targets have
\* pairwise distinct ids after any sequence of addTarget calls
C34_AddedIdIsNew ==
  [][Added => op.arg.id \notin Ids(disk.targets)]_vars

----------------------------------------------------------------------------
(* The bookings made for one target (SpecPoll) *)

\* C35: at most one booking is made successfully on behalf of a target,
\* within one polling tick over several free courts and across ticks
C35_OneBookingPerTarget ==
  \A id \in DOMAIN succ : succ[id] <= 1

----------------------------------------------------------------------------
(* Ticks of a target whose date has passed (Spec) *)

\* the stored target of this id has a date that has passed
Elapsed(id) ==
  \E k \in 1..Len(config.targets) :
     config.targets[k].id = id /\ isExpired(config.targets[k].date, now)

\* C36: as the clock passes the date of a target whose timer is armed, no
\* tick of the timer starts a burst and no booking attempt is initiated for
\* the target
C36_NoFiringAfterDate ==
  [][/\ \A h \in DOMAIN timers :
          (Elapsed(timers[h].id) /\ RunBurst(h, MaxInv)) => invs' = invs
     /\ \A i \in Slots :
          (engine = "fighter" /\ Elapsed(invs'[i].id)) => ~Initiates(i)]_vars

----------------------------------------------------------------------------
(* The fields of a waitlist target, at addTarget and at the tick            *)
(* (SpecFields)                                                             *)

\* a waitlist target as a caller may pass it to addTarget
WaitlistTarget(date, startTime, start, end, duration) ==
  [court |-> Missing, date |-> date, startTime |-> startTime, duration |-> duration,
   timeRange |-> [start |-> start, end |-> end]]

\* the outcome of an expression that throws a TypeError
Throws == [k |-> "throws", v |-> 0]

\* time.split(':') and parseInt of a time string: hours and minutes
HoursMinutes(time) == CASE time = "18:00" -> <<18, 0>> [] time = "06:30" -> <<6, 30>>

\* _parseDateTime(date, time): time.split throws when time is undefined;
\* else the date with its hours and minutes set
parseDateTime(date, time) ==
  IF time = Missing THEN Throws
  ELSE IsoDate(getTime(date) + (HoursMinutes(time)[1] * 60 + HoursMinutes(time)[2]) * 60)

\* new Date(desiredStart.getTime() + duration * 60000)
desiredEndOf(desiredStart, duration) ==
  IF duration.k = "num" THEN IsoDate(getTime(desiredStart) + duration.v * 60)
  ELSE Garbage

\* checkAndReserve(target) from its entry to its first makeReservation:
\* destructure date, startTime and duration, findAvailableCourts, then
\* the first court of the loop; a throw lands in the outer catch
firstAttempt(target, data) ==
  LET desiredStart == parseDateTime(target.date, target.startTime)
  IN IF desiredStart = Throws
     THEN [res |-> "reservationError", court |-> 0, startTime |-> Missing]
     ELSE LET free == findAvailableCourts(data, desiredStart,
                                          desiredEndOf(desiredStart, target.duration))
          IN IF free = << >>
             THEN [res |-> "none", court |-> 0, startTime |-> target.startTime]
             ELSE [res |-> "makeReservation", court |-> free[1],
                   startTime |-> target.startTime]

\* scheduler data in which exactly the courts of S are reserved for the
\* whole day of date
TakenOn(S, date) ==
  LET cs == Ascending(S)
  IN [k \in 1..Len(cs) |->
        Item(1, cs[k], date, IsoDate(getTime(date) + SecPerDay))]

FieldInputs ==
  {WaitlistTarget(d, st, rs, re, du) :
     d \in {Soon, Garbage}, st \in {"18:00", Missing},
     rs \in {"18:00", "06:30", Missing}, re \in {"18:00", Missing},
     du \in {Num(60), Num(0), [k |-> "text", v |-> 0]}}

\* the tick of a target that addTarget accepts, up to its first booking
\* attempt, on scheduler data in which the courts of S are reserved
TickOf(t, S) ==
  /\ Ready
  /\ engine = "waitlist"
  /\ enabled
  /\ strategy.requestData
  /\ validateWaitlistTarget(t) = << >>
  /\ LET data == TakenOn(S, t.date)
         out == firstAttempt(t, data)
     IN last' = Outcome(last, [Result("checkAndReserve", out.res)
                                 EXCEPT !.arg = [target |-> t, data |-> data,
                                                 court |-> out.court,
                                                 startTime |-> out.startTime]])
  /\ UNCHANGED <<checker, engine, now, strategy, disk, config, enabled, initialized,
                 timers, jobs, activeBursts, invs, op, succ, rem>>

InitFields ==
  /\ InitCommon
  /\ engine = "waitlist"
  /\ strategy = PollStrategy
  /\ disk = File(Content(TRUE, << >>))
  /\ last = NoResult
  /\ succ = Uncounted
  /\ rem = Uncounted

NextFields ==
  \/ Initialize
  \/ \E t \in FieldInputs : AddTargetRejected(t)
  \/ \E t \in FieldInputs, S \in SUBSET Courts : TickOf(t, S)
  \/ Advance(SchedulerCheckIntervalSeconds, SchedulerCheckIntervalSeconds)

SpecFields == InitFields /\ [][NextFields]_vars

\* the courts no record of the scheduler data is about
Unreserved(data) == {c \in Courts : \A k \in 1..Len(data) : data[k].CourtId # c}

\* C37: the tick of a target that addTarget accepted, on gateway data that
\* shows a court free of conflicts, reaches a booking attempt on such a
\* court for the start of the time range that was validated
C37_AcceptedTargetReachesAttempt ==
  (last.cmd = "checkAndReserve" /\ Unreserved(last.arg.data) # {})
    => /\ last.res = "makeReservation"
       /\ last.arg.court \in Unreserved(last.arg.data)
       /\ last.arg.startTime = last.arg.target.timeRange.start

----------------------------------------------------------------------------
(* The Reservation Checker: checkReservations runs over the dates of the    *)
(* waitlist targets, and the state manager's tracked ids per date.  A date  *)
(* string YYYY-MM-DD is the number of its day, in a process whose time zone *)
(* is UTC.                                                                  *)

\* a record of the gateway's scheduler data
Rec(rid, members) == [ReservationId |-> rid, MemberIds |-> members]

\* a member other than the bot's own
OtherMember == MyMemberId + 1

\* toISOString().split('T')[0] of a date
Day(date) == getTime(date) \div SecPerDay

\* todayStr of cleanupPastDates
Today == now \div SecPerDay

\* the filter of detectNewReservations: an actual reservation in which the
\* bot's member does not take part
passes(r) ==
  /\ r.ReservationId > 0
  /\ ~(\E k \in 1..Len(r.MemberIds) : r.MemberIds[k] = MyMemberId)

newReservationIds(records) ==
  {records[k].ReservationId : k \in {j \in 1..Len(records) : passes(records[j])}}

\* this.reservationsByDate[dateStr] || new Set()
currentIds(byDate, d) == IF d \in DOMAIN byDate THEN byDate[d] ELSE {}

\* a detectNewReservations that does not look at the ids tracked
newReservationObjectsUntracked(records, byDate, d) ==
  SelectSeq(records, LAMBDA r : r.ReservationId \in newReservationIds(records))

\* the records detectNewReservations returns
newReservationObjects(records, byDate, d) ==
  LET newIds == newReservationIds(records) \ currentIds(byDate, d)
  IN SelectSeq(records, LAMBDA r : r.ReservationId \in newIds)

\* the dates left after cleanupPastDates
cleanupPastDates(byDate, today) ==
  Without(byDate, {d \in DOMAIN byDate : d < today})

\* the days of the waitlist targets, each once, in ascending order
getDatesToCheck(targets) == Ascending({Day(targets[k].date) : k \in 1..Len(targets)})

RECURSIVE BumpAll(_, _)
BumpAll(f, rs) ==
  IF rs = << >> THEN f ELSE BumpAll(Bump(f, Head(rs).ReservationId), Tail(rs))

\* ReservationChecker.initialize: the checker enabled by its environment,
\* no state file yet, the waitlist config loaded
InitializeChecker ==
  /\ engine = "checker"
  /\ ~initialized
  /\ config' = Object(Content(disk.enabled, disk.targets), 0)
  /\ enabled' = TRUE
  /\ initialized' = TRUE
  /\ reservationsByDate' = << >>
  /\ UNCHANGED <<engine, now, strategy, disk, timers, jobs, activeBursts, invs, op,
                 last, succ, rem, reported>>

\* the run of frame i goes on to the request for the first of dates, or
\* ends when there is none (checkCompleted)
ToDates(i, dates) ==
  invs' = [invs EXCEPT ![i] =
             IF dates = << >> THEN IdleInv
             ELSE [IdleInv EXCEPT !.pc = "request", !.id = Head(dates),
                                  !.avail = Tail(dates)]]

\* checkReservations, by the cron tick or by hand, up to its first await:
\* cleanupPastDates saves when it removed a date; else on to the dates
CheckReservations(cap) ==
  /\ engine = "checker"
  /\ initialized
  /\ enabled
  /\ \E i \in 1..cap : invs[i].pc = "idle"
  /\ LET i == FreeSlot(cap)
         kept == cleanupPastDates(reservationsByDate, Today)
     IN /\ reservationsByDate' = kept
        /\ IF kept # reservationsByDate
           THEN invs' = [invs EXCEPT ![i] = [IdleInv EXCEPT !.pc = "cleanup"]]
           ELSE ToDates(i, getDatesToCheck(config.targets))
  /\ UNCHANGED <<engine, now, strategy, disk, config, enabled, initialized, timers,
                 jobs, activeBursts, op, last, succ, rem, reported>>

\* saveState of cleanupPastDates resolved
CleanupSaved(i) ==
  /\ engine = "checker"
  /\ invs[i].pc = "cleanup"
  /\ ToDates(i, getDatesToCheck(config.targets))
  /\ UNCHANGED <<checker, engine, now, strategy, disk, config, enabled, initialized,
                 timers, jobs, activeBursts, op, last, succ, rem>>

\* saveState of cleanupPastDates rejected: checkError, the run returns
CleanupSaveFail(i) ==
  /\ engine = "checker"
  /\ invs[i].pc = "cleanup"
  /\ invs' = [invs EXCEPT ![i] = IdleInv]
  /\ UNCHANGED <<checker, engine, now, strategy, disk, config, enabled, initialized,
                 timers, jobs, activeBursts, op, last, succ, rem>>

\* the gateway answered the request for the date of frame i with records:
\* detectNewReservations up to its await of saveState
Respond(i, records) ==
  /\ engine = "checker"
  /\ invs[i].pc = "request"
  /\ LET d == invs[i].id
         found == newReservationObjects(records, reservationsByDate, d)
     IN /\ reservationsByDate' = With(reservationsByDate, d, newReservationIds(records))
        /\ invs' = [invs EXCEPT ![i].pc = "save", ![i].snap = found]
        /\ last' = Outcome(last, [Result("detectNewReservations", "ok")
                                    EXCEPT !.arg = [records |-> records, date |-> d,
                                                    before |-> currentIds(reservationsByDate, d),
                                                    found |-> found]])
  /\ UNCHANGED <<engine, now, strategy, disk, config, enabled, initialized, timers,
                 jobs, activeBursts, op, succ, rem, reported>>

\* the request for the date of frame i failed: on to the next date
RequestFail(i) ==
  /\ engine = "checker"
  /\ invs[i].pc = "request"
  /\ ToDates(i, invs[i].avail)
  /\ UNCHANGED <<checker, engine, now, strategy, disk, config, enabled, initialized,
                 timers, jobs, activeBursts, op, last, succ, rem>>

\* saveState of detectNewReservations resolved: one newReservation event for
\* each record returned, then the next date
StateSaved(i) ==
  /\ engine = "checker"
  /\ invs[i].pc = "save"
  /\ reported' = BumpAll(reported, invs[i].snap)
  /\ ToDates(i, invs[i].avail)
  /\ UNCHANGED <<engine, now, strategy, disk, config, enabled, initialized, timers,
                 jobs, activeBursts, op, last, succ, rem, reservationsByDate>>

\* saveState of detectNewReservations rejected: nothing is emitted for the
\* date, and the run goes on to the next date
StateSaveFail(i) ==
  /\ engine = "checker"
  /\ invs[i].pc = "save"
  /\ ToDates(i, invs[i].avail)
  /\ UNCHANGED <<checker, engine, now, strategy, disk, config, enabled, initialized,
                 timers, jobs, activeBursts, op, last, succ, rem>>

\* the days a stored target can name
Days == 0 .. MaxTargets

\* the steps of the runs in flight, the gateway answering with data[day]
Runs(cap, data) ==
  \/ CheckReservations(cap)
  \/ \E i \in Slots : CleanupSaved(i)
  \/ \E i \in Slots : CleanupSaveFail(i)
  \/ \E i \in Slots : invs[i].pc = "request" /\ \E rs \in data[invs[i].id] : Respond(i, rs)
  \/ \E i \in Slots : RequestFail(i)
  \/ \E i \in Slots : StateSaved(i)
  \/ \E i \in Slots : StateSaveFail(i)

----------------------------------------------------------------------------
(* Concurrent runs against gateway data that does not change (SpecChecker) *)

\* the scheduler data of a day: a reservation of another member, an empty
\* slot and a reservation of the bot's member
Gateway(d) ==
  {<<Rec(d + 1, <<OtherMember>>), Rec(0, << >>), Rec(d + 3, <<MyMemberId>>)>>}

InitChecker ==
  /\ InitCommon
  /\ engine = "checker"
  /\ strategy = PollStrategy
  /\ disk = File(Content(TRUE, <<Stored(1, IsoDate(0)), Stored(2, IsoDate(SecPerDay))>>))
  /\ last = NoResult
  /\ succ = Uncounted
  /\ rem = Uncounted

NextChecker ==
  \/ InitializeChecker
  \/ Runs(MaxInv, [d \in Days |-> Gateway(d)])
  \/ Advance(SecPerDay, SecPerDay)

SpecChecker == InitChecker /\ [][NextChecker]_vars

\* C38: under every interleaving of concurrent checkReservations runs, a
\* reservation id that stays in the gateway data is reported by at most one
\* newReservation event
C38_ReportedAtMostOnce ==
  \A id \in DOMAIN reported : reported[id] <= 1

----------------------------------------------------------------------------
(* detectNewReservations on every list of records (SpecDetect) *)

\* MemberIds of a record: absent or without the bot's member, or with it
Members == {<< >>, <<MyMemberId, OtherMember>>}

RecordLists ==
  UNION {[1..n -> {Rec(rid, ms) : rid \in 0..2, ms \in Members}] : n \in 0..MaxRecords}

\* the gateway may answer the request for any day with any list
AnyRecords(d) == RecordLists

InitDetect ==
  /\ InitCommon
  /\ engine = "checker"
  /\ strategy = PollStrategy
  /\ disk = File(Content(TRUE, <<Stored(1, IsoDate(0))>>))
  /\ last = NoResult
  /\ succ = Uncounted
  /\ rem = Uncounted

NextDetect ==
  \/ InitializeChecker
  \/ Runs(1, [d \in Days |-> AnyRecords(d)])
  \/ Advance(SecPerDay, SecPerDay)

SpecDetect == InitDetect /\ [][NextDetect]_vars

\* record r involves the bot's own member
Own(r) == \E k \in 1..Len(r.MemberIds) : r.MemberIds[k] = MyMemberId

\* the records with an id above 0, without the bot's member, whose id is not
\* in the set tracked
NewAmong(records, tracked) ==
  SelectSeq(records, LAMBDA r : r.ReservationId > 0 /\ ~Own(r)
                                /\ r.ReservationId \notin tracked)

\* the ids above 0 of the records that do not involve the bot's member
Foreign(records) ==
  {r.ReservationId : r \in {x \in {records[k] : k \in 1..Len(records)} :
                              x.ReservationId > 0 /\ ~Own(x)}}

\* what a call of detectNewReservations leaves: the set tracked for its
\* date is that of the foreign ids of its records, the other dates are as
\* before, and the same call again would return nothing
TracksForeign ==
  \A i \in Slots :
     (invs[i].pc = "request" /\ invs'[i].pc = "save")
       => LET d == invs[i].id
              records == last'.arg.records
          IN /\ reservationsByDate'[d] = Foreign(records)
             /\ \A e \in DOMAIN reservationsByDate \ {d} :
                   e \in DOMAIN reservationsByDate'
                   /\ reservationsByDate'[e] = reservationsByDate[e]
             /\ newReservationObjects(records, reservationsByDate', d) = << >>

====
